---------------------------- MODULE Spec2Model ----------------------------
(***************************************************************************)
(* Model of the client userscript                                          *)
(*   src/frontend/live-stream-chat-ai-agent.user.js  (version 1.3.2)       *)
(*                                                                         *)
(* The script runs on one UI thread: every handler (UI event, timer,       *)
(* recorder event, promise continuation, XHR callback) runs to completion  *)
(* or to its next await.  One action of the model is one such run.  The    *)
(* script's module-level variables are the VARIABLES below; a JavaScript   *)
(* function that mutates them is an operator from a state record to a      *)
(* state record (Cur gathers the variables, Commit writes them back), so   *)
(* that a handler is the composition of the functions it calls.            *)
(***************************************************************************)
EXTENDS Integers, Sequences, FiniteSets, TLC

\* ------------------------------------------------------------------ bounds
MaxStarts == 1      \* successful audio initialisations by Start
MaxSeg    == 4      \* audio segments cut by the interval timers
MaxSegChat == 2     \* the same, where chat capture is followed
MaxSegQueue == 2    \* the same, where the send queue is followed
MaxSegSwitch == 3   \* the same, where the permission switch is followed
MaxSegLife == 1     \* the same, where the lifecycle is followed
MaxTime   == 2      \* wall clock values 0..MaxTime
MaxMsgs   == 2      \* chat messages captured from the page
MaxCapMsgs == 502   \* chat messages of a busy page, past the buffer's cap
MaxCalls  == 3      \* lookups of the page identity after the script's own
MaxResp   == 2      \* upload responses that carry chat text
MaxClock  == 8000   \* wall clock in ms, where duplicate chat is followed
MaxSegDedup == 1    \* audio segments, where duplicate chat is followed
MaxLen    == 5      \* length of the messages enumerated for the splitter
MaxSegParse == 2    \* audio segments, where the response parser is followed
MaxSegCancel == 2   \* audio segments, where Stop against the recorders is followed
MaxSegE2E == 3      \* audio segments, where one response is followed to its post
MaxRestarts == 2    \* the same, where Stop is followed by a second Start
MaxSegRestart == 1  \* audio segments, where Stop is followed by a second Start
MaxRecObj == 2 * MaxRestarts   \* MediaRecorder objects ever created

\* ------------------------------------------------------- program constants
RECORDING_INTERVAL_MS == 30000
MAX_CHAT_LENGTH == 20
FORCE_CHAT_LENGTH == 0
CHAT_SEND_DELAY_MIN_MS == 3000
CHAT_SEND_DELAY_MAX_MS == 6000
MIN_BLOB_SIZE == 2048
MAX_BUFFER_SIZE == 500
DEDUP_TIME_WINDOW == 5000
DEDUP_LOOKBACK == 20
DEFAULT_VOLUME == 50
DEFAULT_GAIN == 100
XHR_TIMEOUT_MS == 90000
SCREENSHOT_WIDTH == 1280
SCREENSHOT_HEIGHT == 720
maxRetries == 10

VARIABLES
  \* --- UI and control flags
  isMainSwitchOn, isChatPermissionGranted, isMuted, volume, runButton,
  isAgentRunning, roomId, currentVideoElement, videoReplacementObserver,
  videoObserver,
  \* --- audio graph
  audioContext, destination, gainNode, gain, mediaElementSource,
  \* --- recorders
  mediaRecorder1, mediaRecorder2, recorders, recorderCount,
  recorder1Timeout, recorder2Timeout, isRecorder1Active, isRecorder2Active,
  recordingStartTimestamp, recordingEndTimestamp, shots,
  \* --- upload client
  isSending, isAccumulating, accumulatedChunks, requests,
  \* --- chat capture
  realtimeChatBuffer, chatObserver, chatRetryTimers,
  \* --- send queue
  chatQueue, isProcessingQueue, adapterCalls, queueTimers,
  \* --- environment
  now, domVideo, chatContainer, pageRoomId, roomRefetchTimers, platform,
  \* --- history (not read by the program).  posted and gone are the fragment
  \* ids posted and the fragments dropped unsent by the last step; lastOp is
  \* the handler that ran in the last step.
  segCount, msgCount, fragCount, respCount, startCount, captured, posted,
  gone, gainRef, lastOp,
  \* --- a function of the script called on its own: its arguments and, once
  \* it has returned, its result
  call

vars == << isMainSwitchOn, isChatPermissionGranted, isMuted, volume, runButton,
  isAgentRunning, roomId, currentVideoElement, videoReplacementObserver,
  videoObserver, audioContext, destination, gainNode, gain, mediaElementSource,
  mediaRecorder1, mediaRecorder2, recorders, recorderCount,
  recorder1Timeout, recorder2Timeout, isRecorder1Active, isRecorder2Active,
  recordingStartTimestamp, recordingEndTimestamp, shots,
  isSending, isAccumulating, accumulatedChunks, requests,
  realtimeChatBuffer, chatObserver, chatRetryTimers,
  chatQueue, isProcessingQueue, adapterCalls, queueTimers,
  now, domVideo, chatContainer, pageRoomId, roomRefetchTimers, platform,
  segCount, msgCount, fragCount, respCount, startCount, captured, posted,
  gone, gainRef, lastOp, call >>

\* The variables as one record: the argument and result of every function.
Cur == [
  isMainSwitchOn |-> isMainSwitchOn,
  isChatPermissionGranted |-> isChatPermissionGranted,
  isMuted |-> isMuted, volume |-> volume, runButton |-> runButton,
  isAgentRunning |-> isAgentRunning, roomId |-> roomId,
  currentVideoElement |-> currentVideoElement,
  videoReplacementObserver |-> videoReplacementObserver,
  videoObserver |-> videoObserver,
  audioContext |-> audioContext, destination |-> destination,
  gainNode |-> gainNode, gain |-> gain,
  mediaElementSource |-> mediaElementSource,
  mediaRecorder1 |-> mediaRecorder1, mediaRecorder2 |-> mediaRecorder2,
  recorders |-> recorders, recorderCount |-> recorderCount,
  recorder1Timeout |-> recorder1Timeout, recorder2Timeout |-> recorder2Timeout,
  isRecorder1Active |-> isRecorder1Active,
  isRecorder2Active |-> isRecorder2Active,
  recordingStartTimestamp |-> recordingStartTimestamp,
  recordingEndTimestamp |-> recordingEndTimestamp, shots |-> shots,
  isSending |-> isSending, isAccumulating |-> isAccumulating,
  accumulatedChunks |-> accumulatedChunks, requests |-> requests,
  realtimeChatBuffer |-> realtimeChatBuffer, chatObserver |-> chatObserver,
  chatRetryTimers |-> chatRetryTimers,
  chatQueue |-> chatQueue, isProcessingQueue |-> isProcessingQueue,
  adapterCalls |-> adapterCalls, queueTimers |-> queueTimers,
  now |-> now, domVideo |-> domVideo, chatContainer |-> chatContainer,
  pageRoomId |-> pageRoomId, roomRefetchTimers |-> roomRefetchTimers,
  platform |-> platform,
  segCount |-> segCount, msgCount |-> msgCount, fragCount |-> fragCount,
  respCount |-> respCount, startCount |-> startCount,
  captured |-> captured, posted |-> {}, gone |-> {},
  gainRef |-> gainRef, call |-> call ]

\* Commit(s, op): the handler named op ran and left the program in state s.
Commit(s, op) ==
  /\ isMainSwitchOn' = s.isMainSwitchOn
  /\ isChatPermissionGranted' = s.isChatPermissionGranted
  /\ isMuted' = s.isMuted
  /\ volume' = s.volume
  /\ runButton' = s.runButton
  /\ isAgentRunning' = s.isAgentRunning
  /\ roomId' = s.roomId
  /\ currentVideoElement' = s.currentVideoElement
  /\ videoReplacementObserver' = s.videoReplacementObserver
  /\ videoObserver' = s.videoObserver
  /\ audioContext' = s.audioContext
  /\ destination' = s.destination
  /\ gainNode' = s.gainNode
  /\ gain' = s.gain
  /\ mediaElementSource' = s.mediaElementSource
  /\ mediaRecorder1' = s.mediaRecorder1
  /\ mediaRecorder2' = s.mediaRecorder2
  /\ recorders' = s.recorders
  /\ recorderCount' = s.recorderCount
  /\ recorder1Timeout' = s.recorder1Timeout
  /\ recorder2Timeout' = s.recorder2Timeout
  /\ isRecorder1Active' = s.isRecorder1Active
  /\ isRecorder2Active' = s.isRecorder2Active
  /\ recordingStartTimestamp' = s.recordingStartTimestamp
  /\ recordingEndTimestamp' = s.recordingEndTimestamp
  /\ shots' = s.shots
  /\ isSending' = s.isSending
  /\ isAccumulating' = s.isAccumulating
  /\ accumulatedChunks' = s.accumulatedChunks
  /\ requests' = s.requests
  /\ realtimeChatBuffer' = s.realtimeChatBuffer
  /\ chatObserver' = s.chatObserver
  /\ chatRetryTimers' = s.chatRetryTimers
  /\ chatQueue' = s.chatQueue
  /\ isProcessingQueue' = s.isProcessingQueue
  /\ adapterCalls' = s.adapterCalls
  /\ queueTimers' = s.queueTimers
  /\ now' = s.now
  /\ domVideo' = s.domVideo
  /\ chatContainer' = s.chatContainer
  /\ pageRoomId' = s.pageRoomId
  /\ roomRefetchTimers' = s.roomRefetchTimers
  /\ platform' = s.platform
  /\ segCount' = s.segCount
  /\ msgCount' = s.msgCount
  /\ fragCount' = s.fragCount
  /\ respCount' = s.respCount
  /\ startCount' = s.startCount
  /\ captured' = s.captured
  /\ posted' = s.posted
  /\ gone' = s.gone
  /\ gainRef' = s.gainRef
  /\ call' = s.call
  /\ lastOp' = op

\* Holds(s, op): the variables have the values of record s.
Holds(s, op) ==
  /\ isMainSwitchOn = s.isMainSwitchOn
  /\ isChatPermissionGranted = s.isChatPermissionGranted
  /\ isMuted = s.isMuted
  /\ volume = s.volume
  /\ runButton = s.runButton
  /\ isAgentRunning = s.isAgentRunning
  /\ roomId = s.roomId
  /\ currentVideoElement = s.currentVideoElement
  /\ videoReplacementObserver = s.videoReplacementObserver
  /\ videoObserver = s.videoObserver
  /\ audioContext = s.audioContext
  /\ destination = s.destination
  /\ gainNode = s.gainNode
  /\ gain = s.gain
  /\ mediaElementSource = s.mediaElementSource
  /\ mediaRecorder1 = s.mediaRecorder1
  /\ mediaRecorder2 = s.mediaRecorder2
  /\ recorders = s.recorders
  /\ recorderCount = s.recorderCount
  /\ recorder1Timeout = s.recorder1Timeout
  /\ recorder2Timeout = s.recorder2Timeout
  /\ isRecorder1Active = s.isRecorder1Active
  /\ isRecorder2Active = s.isRecorder2Active
  /\ recordingStartTimestamp = s.recordingStartTimestamp
  /\ recordingEndTimestamp = s.recordingEndTimestamp
  /\ shots = s.shots
  /\ isSending = s.isSending
  /\ isAccumulating = s.isAccumulating
  /\ accumulatedChunks = s.accumulatedChunks
  /\ requests = s.requests
  /\ realtimeChatBuffer = s.realtimeChatBuffer
  /\ chatObserver = s.chatObserver
  /\ chatRetryTimers = s.chatRetryTimers
  /\ chatQueue = s.chatQueue
  /\ isProcessingQueue = s.isProcessingQueue
  /\ adapterCalls = s.adapterCalls
  /\ queueTimers = s.queueTimers
  /\ now = s.now
  /\ domVideo = s.domVideo
  /\ chatContainer = s.chatContainer
  /\ pageRoomId = s.pageRoomId
  /\ roomRefetchTimers = s.roomRefetchTimers
  /\ platform = s.platform
  /\ segCount = s.segCount
  /\ msgCount = s.msgCount
  /\ fragCount = s.fragCount
  /\ respCount = s.respCount
  /\ startCount = s.startCount
  /\ captured = s.captured
  /\ posted = s.posted
  /\ gone = s.gone
  /\ gainRef = s.gainRef
  /\ call = s.call
  /\ lastOp = op

\* ----------------------------------------------------------------- helpers
NoTimer == [pending |-> FALSE, rec |-> 0]
NoCall == [fn |-> "none"]
NewRecorder == [state |-> "inactive", events |-> << >>, chunks |-> << >>,
                label |-> 0, next |-> 0]

RECURSIVE SumSizes(_)
SumSizes(blob) ==
  IF blob = << >> THEN 0 ELSE Head(blob).size + SumSizes(Tail(blob))

\* seq without its k-th element
RemoveAt(seq, k) == SubSeq(seq, 1, k - 1) \o SubSeq(seq, k + 1, Len(seq))


\* ------------------------------------------------------------- audio graph
\* updateGain (src 1708-1729): gain := muted ? 0 : volume/100, only while the
\* context runs.  gain is kept in percent.
updateGain(s) ==
  IF s.gainNode /\ s.audioContext = "running"
  THEN [s EXCEPT !.gain = IF s.isMuted THEN 0 ELSE s.volume]
  ELSE s

\* The same update in a run in which mute and volume were never touched
\* (isMuted = false, slider at its default): the reference of the comparison
\* between two runs that differ only in mute/volume changes.
updateGainRef(s) ==
  IF s.gainNode /\ s.audioContext = "running"
  THEN [s EXCEPT !.gainRef = DEFAULT_VOLUME]
  ELSE s

\* An initialisation that reports success whatever the browser answered
initializeAudio_AlwaysOk(s, videoElement, ctxState, sourceOk) ==
  [s |-> [s EXCEPT !.currentVideoElement = videoElement], ok |-> TRUE]
\* initializeAudio (src 1595-1689).  ctxState: the state of a newly created
\* AudioContext; sourceOk: whether a source node could be created for the
\* element (createMediaElementSource or the captureStream fallback).
\* destination names the recordable sink by the order of creation: 0 is
\* null, n the n-th MediaStreamAudioDestinationNode the script created (the
\* reference is never set back to null, src 2624-2651).
initializeAudio(s, videoElement, ctxState, sourceOk) ==
  IF videoElement = 0
  THEN [s |-> [s EXCEPT !.currentVideoElement = 0], ok |-> FALSE]
  ELSE
    LET s1 == IF s.audioContext = "none"
              THEN [s EXCEPT !.audioContext = ctxState] ELSE s
        s2 == IF s1.destination = 0
              THEN [s1 EXCEPT !.destination = @ + 1] ELSE s1
        s3 == IF ~s2.gainNode
              THEN [s2 EXCEPT !.gainNode = TRUE, !.gain = DEFAULT_GAIN,
                              !.gainRef = DEFAULT_GAIN]
              ELSE s2
        s4 == [s3 EXCEPT !.mediaElementSource = 0]
    IN IF sourceOk
       THEN [s |-> [updateGainRef(updateGain(
                      [s4 EXCEPT !.mediaElementSource = videoElement]))
                    EXCEPT !.currentVideoElement = videoElement],
             ok |-> TRUE]
       ELSE [s |-> [s4 EXCEPT !.mediaElementSource = 0,
                              !.currentVideoElement = 0],
             ok |-> FALSE]

\* What reaches the recordable sink, in percent of the source level:
\* source -> gainNode -> destination (src 1668-1669).
SinkLevel(g) ==
  IF mediaElementSource # 0 /\ gainNode /\ destination # 0 THEN g ELSE 0

\* cleanupAudioResources (src 2624-2651).  It is called by stopAgent only,
\* after stopRecordingAndProcessing has cleared both timers, so forgetting
\* the timer handles leaves no timer pending.
StopIfNotInactive(s, o) ==
  IF o # 0 /\ s.recorders[o].state # "inactive"
  THEN [s EXCEPT !.recorders[o].state = "inactive",
                 !.recorders[o].events = Append(@, "stop")]
  ELSE s

cleanupAudioResources(s) ==
  LET s1 == StopIfNotInactive(StopIfNotInactive(s, s.mediaRecorder1),
                              s.mediaRecorder2)
  IN [s1 EXCEPT !.mediaRecorder1 = 0, !.mediaRecorder2 = 0,
                !.recorder1Timeout = NoTimer, !.recorder2Timeout = NoTimer,
                !.accumulatedChunks = << >>, !.isAccumulating = FALSE,
                !.mediaElementSource = 0, !.gainNode = FALSE]

\* ------------------------------------------------------------ chat capture
\* startChatObserver (src 1258-1417)
startChatObserver(s) ==
  IF s.chatObserver THEN s
  ELSE IF ~s.chatContainer
       THEN [s EXCEPT !.chatRetryTimers = @ + 1]
       ELSE [s EXCEPT !.chatObserver = TRUE]

\* stopChatObserver (src 1422-1431)
stopChatObserver(s) ==
  IF s.chatObserver
  THEN [s EXCEPT !.chatObserver = FALSE, !.realtimeChatBuffer = << >>]
  ELSE s

\* A callback that never trims the buffer
observerCallback_Untrimmed(s, uname, content) ==
  [s EXCEPT !.realtimeChatBuffer =
              Append(@, [id |-> s.msgCount + 1, uname |-> uname,
                         content |-> content, platform |-> s.platform,
                         timestamp |-> s.now]),
            !.msgCount = @ + 1,
            !.captured = @ \cup {s.msgCount + 1}]

\* observerCallback of startChatObserver (src 1292-1387), one inserted node
\* that the adapter extracts as (uname, content).
observerCallback(s, uname, content) ==
  LET timestamp == s.now
      newChat == [id |-> s.msgCount + 1, uname |-> uname, content |-> content,
                  platform |-> s.platform, timestamp |-> timestamp]
      buf == s.realtimeChatBuffer
      n == Len(buf)
      bufferToCheck == SubSeq(buf, IF n > DEDUP_LOOKBACK
                                   THEN n - DEDUP_LOOKBACK + 1 ELSE 1, n)
      isDuplicate == \E i \in DOMAIN bufferToCheck :
                        /\ bufferToCheck[i].timestamp >= timestamp - DEDUP_TIME_WINDOW
                        /\ bufferToCheck[i].uname = newChat.uname
                        /\ bufferToCheck[i].content = newChat.content
                        /\ bufferToCheck[i].platform = newChat.platform
      pushed == IF isDuplicate THEN buf ELSE Append(buf, newChat)
      trimmed == IF Len(pushed) > MAX_BUFFER_SIZE
                 THEN SubSeq(pushed, Len(pushed) - MAX_BUFFER_SIZE + 1, Len(pushed))
                 ELSE pushed
  IN [s EXCEPT !.realtimeChatBuffer = trimmed,
               !.msgCount = @ + 1,
               !.captured = IF isDuplicate THEN @ ELSE @ \cup {newChat.id}]

\* ------------------------------------------------------ video replacement
startVideoReplacementObserver(s) == [s EXCEPT !.videoReplacementObserver = TRUE]
stopVideoReplacementObserver(s) == [s EXCEPT !.videoReplacementObserver = FALSE]

\* A re-initialisation that creates a new recordable sink as well
reinitializeAudioSystem_NewSink(s, newVideoElement, sourceOk) ==
  IF ~s.isAgentRunning THEN s
  ELSE [initializeAudio(s, newVideoElement, "running", sourceOk).s
          EXCEPT !.destination = @ + 1]

\* reinitializeAudioSystem (src 2601-2619)
reinitializeAudioSystem(s, newVideoElement, sourceOk) ==
  IF ~s.isAgentRunning THEN s
  ELSE initializeAudio(s, newVideoElement, "running", sourceOk).s

\* checkForVideoReplacement (src 2559-2595)
checkForVideoReplacement(s, sourceOk) ==
  IF ~s.isAgentRunning THEN s
  ELSE IF s.domVideo = 0 THEN [s EXCEPT !.currentVideoElement = 0]
  ELSE IF s.currentVideoElement = 0 \/ s.domVideo # s.currentVideoElement
       THEN reinitializeAudioSystem(s, s.domVideo, sourceOk)
       ELSE s


\* -------------------------------------------------------------- screenshot
\* A rounding that drops the fraction
RoundDiv_Floor(num, den) == num \div den
\* Math.round(num / den) for num >= 0 and den > 0: the nearest integer, a
\* half going up
RoundDiv(num, den) == (2 * num + den) \div (2 * den)

\* floor(log2(num / den)) for num > 0, den > 0: the exponent of the double
\* nearest to num / den
RECURSIVE Log2Floor(_, _)
Log2Floor(num, den) ==
  IF num >= 2 * den THEN Log2Floor(num, 2 * den) + 1
  ELSE IF num < den THEN Log2Floor(2 * num, den) - 1
  ELSE 0

\* Math.round(c * aspectRatio), or Math.round(c / aspectRatio) when inverse,
\* where aspectRatio is the double w / h (src 2037, 2043, 2046).  The double
\* has 53 significant bits: aspectRatio = w / h + err / (h * 2^(52 - exp)),
\* -h / 2 < err < h / 2.  Away from a half the rounding error is too small
\* to matter and the result is the exact quotient rounded; when the exact
\* value is n + 1/2 the product or quotient is rounded to a double once
\* more, dev units in the last place away from n + 1/2 (dev = c * err *
\* 2^(exp - e2) / h, or -c * h * err * 2^(exp - e2) / w^2 when inverse), and
\* Math.round gives n when that double is below n + 1/2, that is when
\* dev < -1/2, and n + 1 otherwise.
MathRoundRatio(c, w, h, inverse) ==
  LET num == IF inverse THEN c * h ELSE c * w
      den == IF inverse THEN w ELSE h
      n == num \div den
      exp == Log2Floor(w, h)
      RECURSIVE ScaledMod(_, _)
      ScaledMod(r, k) == IF k = 0 THEN r ELSE ScaledMod((2 * r) % h, k - 1)
      rem == ScaledMod(w % h, 52 - exp)
      err == IF 2 * rem < h THEN -rem ELSE h - rem
      e2 == Log2Floor(2 * n + 1, 2)
      Pow2[i \in 0..63] == IF i = 0 THEN 1 ELSE 2 * Pow2[i - 1]
      up == Pow2[IF e2 > exp THEN e2 - exp ELSE 0]
      down == Pow2[IF exp > e2 THEN exp - e2 ELSE 0]
      \* p / q > r / t, by continued fractions
      RECURSIVE Greater(_, _, _, _)
      Greater(p, q, r, t) ==
        IF p \div q # r \div t THEN p \div q > r \div t
        ELSE IF p % q = 0 THEN FALSE
        ELSE IF r % t = 0 THEN TRUE
        ELSE Greater(t, r % t, q, p % q)
      below == IF inverse
               THEN err > 0 /\ Greater(2 * c * err, w, w * up, h * down)
               ELSE err < 0 /\ Greater(2 * c * (-err), h, up, down)
  IN IF (2 * num) % (2 * den) # den THEN RoundDiv(num, den)
     ELSE IF below THEN n ELSE n + 1

\* captureScreenshot up to the drawing (src 2022-2050): the size of the
\* canvas, or no screenshot.  found: the adapter finds a video element.
\* The comparison of aspectRatio with SCREENSHOT_WIDTH / SCREENSHOT_HEIGHT
\* is the comparison of the fractions: two different fractions of these
\* sizes are further apart than the doubles' rounding.
captureScreenshotCanvas(found, readyState, videoWidth, videoHeight) ==
  IF ~found THEN [screenshot |-> "null"]
  ELSE IF readyState < 1 \/ videoWidth = 0 \/ videoHeight = 0
  THEN [screenshot |-> "null"]
  ELSE IF videoWidth * SCREENSHOT_HEIGHT > SCREENSHOT_WIDTH * videoHeight
  THEN [screenshot |-> "canvas", width |-> SCREENSHOT_WIDTH,
        height |-> MathRoundRatio(SCREENSHOT_WIDTH, videoWidth, videoHeight, TRUE)]
  ELSE [screenshot |-> "canvas",
        width |-> MathRoundRatio(SCREENSHOT_HEIGHT, videoWidth, videoHeight, FALSE),
        height |-> SCREENSHOT_HEIGHT]

\* ------------------------------------------------------- message splitter
\* Text is a sequence of characters; a character is a one-character string,
\* and a character that has no plain writing is written by its code point
\* (the full-width punctuation marks U+FF0C, U+3002, U+FF01, U+FF1F, the
\* white space beyond space, tab and line feed; carriage return and form
\* feed are accepted under both writings).
\* Whitespace is what the regular expression class \s matches and what
\* String.prototype.trim strips: ECMAScript WhiteSpace and LineTerminator.
Whitespace ==
  {" ", "\t", "\n", "\r", "\f",
   "U+000B", "U+000C", "U+000D", "U+00A0", "U+1680",
   "U+2000", "U+2001", "U+2002", "U+2003", "U+2004", "U+2005", "U+2006",
   "U+2007", "U+2008", "U+2009", "U+200A",
   "U+2028", "U+2029", "U+202F", "U+205F", "U+3000", "U+FEFF"}
Separators == Whitespace \cup {",", ".", "!", "?",
                               "U+FF0C", "U+3002", "U+FF01", "U+FF1F"}

RECURSIVE TrimLeft(_)
TrimLeft(str) ==
  IF str # << >> /\ Head(str) \in Whitespace THEN TrimLeft(Tail(str)) ELSE str

RECURSIVE TrimRight(_)
TrimRight(str) ==
  IF str # << >> /\ str[Len(str)] \in Whitespace
  THEN TrimRight(SubSeq(str, 1, Len(str) - 1)) ELSE str

Trim(str) == TrimRight(TrimLeft(str))

\* Index of the first separator at or after from, 0 if there is none.
RECURSIVE NextSeparator(_, _)
NextSeparator(message, from) ==
  IF from > Len(message) THEN 0
  ELSE IF message[from] \in Separators THEN from
  ELSE NextSeparator(message, from + 1)

\* Last index of the run of separators that starts at i.
RECURSIVE SeparatorRunEnd(_, _)
SeparatorRunEnd(message, i) ==
  IF i < Len(message) /\ message[i + 1] \in Separators
  THEN SeparatorRunEnd(message, i + 1) ELSE i

\* A hard cut that pushes the chunk whole
HardCut_Whole(chunk, limit) == IF chunk = << >> THEN << >> ELSE << chunk >>
\* for (i = 0; i < chunk.length; i += limit) parts.push(chunk.slice(i, i+limit))
RECURSIVE HardCut(_, _)
HardCut(chunk, limit) ==
  IF chunk = << >> THEN << >>
  ELSE IF Len(chunk) <= limit THEN << chunk >>
  ELSE << SubSeq(chunk, 1, limit) >> \o
       HardCut(SubSeq(chunk, limit + 1, Len(chunk)), limit)

\* A limit that ignores the platform
ChatLengthLimit_Default(force, platformName) ==
  IF force > 0 THEN force ELSE MAX_CHAT_LENGTH
\* The active limit (src 2340-2350)
ChatLengthLimit(force, platformName) ==
  IF force > 0 THEN force
  ELSE IF platformName = "YouTube" THEN 100
  ELSE IF platformName = "Bilibili" THEN 20
  ELSE IF platformName = "Twitch" THEN 100
  ELSE MAX_CHAT_LENGTH

\* The while loop over the separator matches and the final chunk
\* (src 2361-2399); loop state: lastIndex (1-based), currentPart, parts.
RECURSIVE SplitLoop(_, _, _, _, _)
SplitLoop(message, lastIndex, currentPart, parts, limit) ==
  LET m == NextSeparator(message, lastIndex) IN
  IF m # 0
  THEN
    LET e == SeparatorRunEnd(message, m)
        chunk == Trim(SubSeq(message, lastIndex, m - 1))
        potentialPart == IF currentPart # << >>
                         THEN currentPart \o << " " >> \o chunk ELSE chunk
    IN IF chunk = << >>
       THEN SplitLoop(message, e + 1, currentPart, parts, limit)
       ELSE IF Len(potentialPart) <= limit
       THEN SplitLoop(message, e + 1, potentialPart, parts, limit)
       ELSE
         LET flushed == IF currentPart # << >>
                        THEN Append(parts, currentPart) ELSE parts
         IN IF Len(chunk) <= limit
            THEN SplitLoop(message, e + 1, chunk, flushed, limit)
            ELSE SplitLoop(message, e + 1, << >>,
                           flushed \o HardCut(chunk, limit), limit)
  ELSE
    LET finalChunk == Trim(SubSeq(message, lastIndex, Len(message)))
        potentialPart == IF currentPart # << >>
                         THEN currentPart \o << " " >> \o finalChunk
                         ELSE finalChunk
    IN IF finalChunk # << >>
       THEN IF Len(potentialPart) <= limit
            THEN Append(parts, potentialPart)
            ELSE (IF currentPart # << >>
                  THEN Append(parts, currentPart) ELSE parts)
                 \o HardCut(finalChunk, limit)
       ELSE IF currentPart # << >> THEN Append(parts, currentPart)
       ELSE parts

\* A test that sends a message of exactly the limit's length to the scan
FitsWhole_Strict(message, limit) == Len(message) < limit
\* "If the whole is not too long, return it as it is" (src 2353)
FitsWhole(message, limit) == Len(message) <= limit

\* splitMessage (src 2335-2409)
splitMessageWith(message, limit) ==
  IF message = << >> THEN << >>
  ELSE IF FitsWhole(message, limit) THEN << message >>
  ELSE LET parts == SplitLoop(message, 1, << >>, << >>, limit)
       IN IF parts = << >> /\ Len(message) > 0
          THEN HardCut(message, limit) ELSE parts

splitMessage(message, platformName) ==
  splitMessageWith(message, ChatLengthLimit(FORCE_CHAT_LENGTH, platformName))

\* A parser that takes a response without messages for a greeting
NotAnArray_Greeting == << << "h", "i" >> >>
\* The messages of a response whose chat_messages is not an array (src 2115)
NotAnArray == << >>

\* JavaScript values of the fields of a response: [t |-> type] and, but for
\* undefined and null, v |-> value (the characters of a string, the elements
\* of an array).  An element of chat_messages is an object [content |-> value].
JsUndefined == [t |-> "undefined"]
JsNull == [t |-> "null"]
JsValue(t, v) == [t |-> t, v |-> v]

\* c => typeof c === 'string' && c.trim() (src 2114)
IsActionable(c) == c.t = "string" /\ Trim(c.v) # << >>
\* parseServerResponse (src 2111-2125), the messages field: the contents of
\* the elements that are strings and not blank, when chat_messages is an array
parseMessages(resp) ==
  IF "chat_messages" \notin DOMAIN resp THEN NotAnArray
  ELSE IF resp.chat_messages.t # "array" THEN NotAnArray
  ELSE LET items == resp.chat_messages.v
           contents == [i \in DOMAIN items |-> items[i].content]
           kept == SelectSeq(contents, IsActionable)
       IN [i \in DOMAIN kept |-> kept[i].v]

\* resp[f]: undefined for a field the payload does not have
Field(resp, f) == IF f \in DOMAIN resp THEN resp[f] ELSE JsUndefined
\* !!x
Truthy(x) ==
  CASE x.t = "string" -> x.v # << >>
    [] x.t = "number" -> x.v # 0
    [] x.t = "boolean" -> x.v
    [] x.t = "array" -> TRUE
    [] OTHER -> FALSE
\* x || d
OrElse(x, d) == IF Truthy(x) THEN x ELSE d

\* parseServerResponse (src 2111-2125)
parseServerResponse(resp) ==
  [ messages |-> parseMessages(resp),
    think |-> OrElse(Field(resp, "internal_think"), JsNull),
    continues |-> IF Field(resp, "continues").t \notin {"undefined", "null"}
                  THEN resp.continues ELSE JsNull,
    notepadNotes |-> IF Field(resp, "new_notepad").t = "array"
                     THEN resp.new_notepad.v ELSE << >>,
    contextCleared |-> Truthy(Field(resp, "context_cleared")),
    youdao |-> OrElse(Field(resp, "recognized_text_youdao"), JsNull),
    whisper |-> OrElse(Field(resp, "recognized_text_whisper"), JsNull),
    imageUrl |-> OrElse(Field(resp, "image_url"), JsNull),
    raw |-> OrElse(Field(resp, "LLM_response_raw"), JsValue("string", << >>)) ]

\* -------------------------------------------------------------- send queue
\* History of the current step (Cur starts every step with gone = {}): the
\* fragments of queue leave the program unsent, by the given way
Gone(s, queue, by) ==
  [s EXCEPT !.gone = @ \cup { [id |-> queue[i].id, by |-> by] : i \in DOMAIN queue }]

\* A drain that does not look at the running flag
SendAllowed_PermissionOnly(s) == s.isChatPermissionGranted
\* The check before a fragment is sent (src 2426, negated)
SendAllowed(s) == s.isChatPermissionGranted /\ s.isAgentRunning

\* A drain that does not look at the in-progress flag
processChatQueue_NoLock(s) ==
  IF s.chatQueue = << >> THEN [s EXCEPT !.isProcessingQueue = FALSE]
  ELSE IF ~SendAllowed(s)
       THEN [Gone(s, s.chatQueue, "drain")
               EXCEPT !.chatQueue = << >>, !.isProcessingQueue = FALSE]
  ELSE [s EXCEPT !.isProcessingQueue = TRUE,
                 !.chatQueue = Tail(@),
                 !.adapterCalls = Append(@, Head(s.chatQueue))]

\* processChatQueue up to its await (src 2415-2440)
processChatQueue(s) ==
  IF s.isProcessingQueue THEN s
  ELSE IF s.chatQueue = << >> THEN [s EXCEPT !.isProcessingQueue = FALSE]
  ELSE IF ~SendAllowed(s)
       THEN [Gone(s, s.chatQueue, "drain")
               EXCEPT !.chatQueue = << >>, !.isProcessingQueue = FALSE]
  ELSE [s EXCEPT !.isProcessingQueue = TRUE,
                 !.chatQueue = Tail(@),
                 !.adapterCalls = Append(@, Head(s.chatQueue))]

\* A drain timer that always takes the delay between two sends
ScheduleDrain_SameDelay(s, lo, hi) ==
  [s EXCEPT !.queueTimers = Append(@, [lo |-> CHAT_SEND_DELAY_MIN_MS,
                                       hi |-> CHAT_SEND_DELAY_MAX_MS])]

\* setTimeout(() => { isProcessingQueue = false; processChatQueue(); }, delay)
\* with delay = getRandomInt(lo, hi)
ScheduleDrain(s, lo, hi) ==
  [s EXCEPT !.queueTimers = Append(@, [lo |-> lo, hi |-> hi])]

\* A re-queue at the tail
Requeue_Tail(queue, message) == Append(queue, message)
\* Where a re-queued fragment goes: chatQueue.unshift(message)
Requeue(queue, message) == << message >> \o queue

\* An adapter answer handled as retryable whatever the status
afterSendChatMessage_AlwaysRetry(s, message, status) ==
  ScheduleDrain([s EXCEPT !.chatQueue = Requeue(@, message)], 5000, 10000)

\* processChatQueue after its await (src 2442-2488); "throw" is an exception
\* out of the adapter's send routine.
afterSendChatMessage(s, message, status) ==
  CASE status = "success" ->
         LET s1 == [s EXCEPT !.posted = @ \cup {message.id}] IN
         IF s1.chatQueue # << >> /\ s1.isAgentRunning /\ s1.isChatPermissionGranted
         THEN ScheduleDrain(s1, CHAT_SEND_DELAY_MIN_MS, CHAT_SEND_DELAY_MAX_MS)
         ELSE LET s2 == [s1 EXCEPT !.isProcessingQueue = FALSE]
              IN IF s2.chatQueue # << >> THEN processChatQueue(s2) ELSE s2
    [] status = "disabled" ->
         ScheduleDrain([s EXCEPT !.chatQueue = Requeue(@, message)], 3000, 7000)
    [] status \in {"not_found", "not_implemented"} ->
         [Gone(s, << message >>, "abandon") EXCEPT !.isProcessingQueue = FALSE]
    [] OTHER ->
         ScheduleDrain([s EXCEPT !.chatQueue = Requeue(@, message)], 5000, 10000)

\* Push the fragments of one AI message: chatQueue.push(...splitMessage(m))
RECURSIVE PushParts(_, _)
PushParts(s, parts) ==
  IF parts = << >> THEN s
  ELSE PushParts([s EXCEPT !.chatQueue = Append(@, [id |-> s.fragCount + 1,
                                                     text |-> Head(parts)]),
                           !.fragCount = @ + 1],
                 Tail(parts))

RECURSIVE QueueMessages(_, _)
QueueMessages(s, messages) ==
  IF messages = << >> THEN s
  ELSE QueueMessages(PushParts(s, splitMessage(Head(messages), s.platform)),
                     Tail(messages))


\* ----------------------------------------------------------- upload client
\* new Blob(list of blobs): the chunks of the blobs, in list order
RECURSIVE Concat(_)
Concat(blobs) ==
  IF blobs = << >> THEN << >> ELSE Head(blobs) \o Concat(Tail(blobs))

\* A merge that puts the accumulated blobs first
MergeOrder_AccumulatedFirst(audioBlob, accumulated) ==
  accumulated \o << audioBlob >>
\* The merge order of src 2176: [audioBlob, ...accumulatedChunks]
MergeOrder(audioBlob, accumulated) == << audioBlob >> \o accumulated

\* A slice that takes the message stamped at the interval's end
InInterval_EndInclusive(chat, start, end) ==
  chat.timestamp >= start /\ chat.timestamp <= end
\* The interval's chat slice (src 2138-2140)
InInterval(chat, start, end) == chat.timestamp >= start /\ chat.timestamp < end
\* A buffer that is never pruned
KeptAfter_All(chat, end) == TRUE
\* What the buffer keeps (src 2146)
KeptAfter(chat, end) == chat.timestamp >= end

\* sendDataToServer (src 2135-2327).  audioBlob is a sequence of chunks
\* (<< >> for null), screenshotBlob a boolean (a non-empty blob or null).
\* A request is logged in requests with open = TRUE until it completes; its
\* field since is history: the segments stop handlers finalized meanwhile.
sendDataToServer(s, audioBlob, start, end, screenshotBlob) ==
  LET Slice(chat) == InInterval(chat, start, end)
      Kept(chat) == KeptAfter(chat, end)
      chatsForThisInterval == SelectSeq(s.realtimeChatBuffer, Slice)
      s1 == [s EXCEPT !.realtimeChatBuffer = SelectSeq(@, Kept)]
      size == SumSizes(audioBlob)
  IN
  IF size = 0 /\ chatsForThisInterval = << >> /\ ~screenshotBlob THEN s1
  ELSE IF s1.isSending
  THEN IF size > 0
       THEN IF ~s1.isAccumulating
            THEN [s1 EXCEPT !.accumulatedChunks = << audioBlob >>,
                            !.isAccumulating = TRUE]
            ELSE [s1 EXCEPT !.accumulatedChunks = Append(@, audioBlob)]
       ELSE s1
  ELSE
    LET merging == s1.isAccumulating /\ s1.accumulatedChunks # << >>
        finalAudioBlob ==
          IF merging
          THEN Concat(IF size > 0 THEN MergeOrder(audioBlob, s1.accumulatedChunks)
                      ELSE s1.accumulatedChunks)
          ELSE audioBlob
        s2 == IF merging
              THEN [s1 EXCEPT !.accumulatedChunks = << >>,
                              !.isAccumulating = FALSE]
              ELSE s1
    IN [s2 EXCEPT !.isSending = TRUE,
                  !.requests = Append(@, [audio |-> finalAudioBlob,
                                          chats |-> chatsForThisInterval,
                                          shot |-> screenshotBlob,
                                          start |-> start, end |-> end,
                                          open |-> TRUE, since |-> << >>])]

\* "Handle accumulated audio" of the three completion callbacks
\* (src 2261-2284, 2291-2300, 2305-2314)
sendAccumulated(s, req) ==
  IF s.isAccumulating /\ s.accumulatedChunks # << >>
  THEN LET nextBlob == Head(s.accumulatedChunks)
           s1 == [s EXCEPT !.accumulatedChunks = Tail(@),
                           !.isAccumulating = (Tail(s.accumulatedChunks) # << >>)]
       IN sendDataToServer(s1, nextBlob, req.start, req.end, FALSE)
  ELSE s

\* A completion that keeps the lock
ReleaseLock_Kept(s) == s
\* What a completion callback does to the lock: isSending = false
ReleaseLock(s) == [s EXCEPT !.isSending = FALSE]

\* xhr.onreadystatechange at readyState 4 (src 2216-2286).  outcome.kind:
\*   "success"  HTTP 2xx, JSON body with status "success"
\*   "apperr"   HTTP 2xx, JSON body with another status
\*   "badjson"  HTTP 2xx, body that does not parse
\*   "http"     HTTP status outside 2xx
\*   "neterr", "timeout"   status 0
onreadystatechange(s, req, outcome) ==
  LET s1 == ReleaseLock(s)
      messages == IF outcome.kind = "success"
                  THEN parseServerResponse(outcome.resp).messages ELSE << >>
      s2 == IF messages # << >> /\ s1.isChatPermissionGranted
            THEN processChatQueue(
                   QueueMessages([s1 EXCEPT !.respCount = @ + 1], messages))
            ELSE s1
  IN sendAccumulated(s2, req)

\* xhr.onerror (src 2288-2301) and xhr.ontimeout (src 2302-2315)
onerror(s, req) == sendAccumulated(ReleaseLock(s), req)

\* The callbacks a completing request fires, in order: readystatechange
\* always, then error or timeout for a transport failure.
xhrCompletion(s, r, outcome) ==
  LET req == s.requests[r]
      s0 == [s EXCEPT !.requests[r].open = FALSE]
      s1 == onreadystatechange(s0, req, outcome)
  IN IF outcome.kind \in {"neterr", "timeout"} THEN onerror(s1, req) ELSE s1

\* --------------------------------------------------------------- recorders
SetActive(s, label, v) ==
  IF label = 1 THEN [s EXCEPT !.isRecorder1Active = v]
  ELSE [s EXCEPT !.isRecorder2Active = v]

\* MediaRecorder.stop(): the recorder is inactive at once, its dataavailable
\* and stop events are dispatched later by one queued task.
RecorderStop(s, o) ==
  [s EXCEPT !.recorders[o].state = "inactive",
            !.recorders[o].events = Append(@, "stop")]

\* stopRecordingAndProcessing (src 1961-2016).  chunks1 = [] and chunks2 = []
\* rebind the globals to new arrays; the arrays the recorders' handlers
\* closed over (recorders[o].chunks) are not touched.
stopRecordingAndProcessing(s) ==
  LET s1 == [s EXCEPT !.recorder1Timeout.pending = FALSE,
                      !.recorder2Timeout.pending = FALSE]
      StopOne(x, o) == IF o # 0 /\ x.recorders[o].state = "recording"
                       THEN RecorderStop(x, o) ELSE x
      s2 == StopOne(StopOne(s1, s1.mediaRecorder1), s1.mediaRecorder2)
  IN [s2 EXCEPT !.isRecorder1Active = FALSE, !.isRecorder2Active = FALSE,
                !.accumulatedChunks = << >>, !.isAccumulating = FALSE]

\* ------------------------------------------------------- lifecycle: Stop
\* The early return of stopAgent (src 1501-1504)
stopAgentReturnsEarly(s) == ~s.isAgentRunning

\* stopAgent (src 1500-1523; the same text again at 1528-1551)
stopAgent(s) ==
  IF stopAgentReturnsEarly(s) THEN s
  ELSE
    LET s1 == [s EXCEPT !.isAgentRunning = FALSE]
        s2 == stopVideoReplacementObserver(s1)
        s3 == stopRecordingAndProcessing(s2)
        s4 == stopChatObserver(s3)
        s5 == cleanupAudioResources(s4)
    IN [s5 EXCEPT !.runButton = [text |-> "Start", running |-> FALSE,
                    disabled |-> ~(s5.isMainSwitchOn /\
                                   (s5.currentVideoElement # 0 \/ s5.domVideo # 0))],
                  !.currentVideoElement = 0]

\* A recorder start that does not look at the running flag
startPrevented_Never(s) == FALSE
\* "Preventing recorder start because Agent run state is false" (src 1882)
startPrevented(s) == ~s.isAgentRunning

\* startSpecificRecorder (src 1881-1955).  startOk: the destination stream is
\* active and recorder.start() does not throw.
startSpecificRecorder(s, o, startOk) ==
  IF startPrevented(s)
  THEN [s EXCEPT !.isRecorder1Active = FALSE, !.isRecorder2Active = FALSE]
  ELSE
    LET label == IF o = s.mediaRecorder1 THEN 1 ELSE 2 IN
    IF \/ (label = 1 /\ s.isRecorder1Active)
       \/ (label = 2 /\ s.isRecorder2Active)
       \/ s.recorders[o].state # "inactive"
    THEN s
    ELSE IF ~(s.destination # 0 /\ startOk)
    THEN stopAgent(SetActive(s, label, FALSE))
    ELSE
      LET s1 == [s EXCEPT !.recorders[o].state = "recording",
                          !.recorders[o].events = Append(@, "start")]
          s2 == IF label = 1
                THEN [s1 EXCEPT !.isRecorder1Active = TRUE,
                                !.isRecorder2Active = FALSE]
                ELSE [s1 EXCEPT !.isRecorder2Active = TRUE,
                                !.isRecorder1Active = FALSE]
      IN IF label = 1
         THEN [s2 EXCEPT !.recorder1Timeout = [pending |-> TRUE, rec |-> o]]
         ELSE [s2 EXCEPT !.recorder2Timeout = [pending |-> TRUE, rec |-> o]]

\* stopFunction, the interval timer's callback (src 1915-1936), of the timer
\* in slot label
stopFunction(s, label) ==
  LET o == IF label = 1 THEN s.recorder1Timeout.rec ELSE s.recorder2Timeout.rec
      s0 == IF label = 1 THEN [s EXCEPT !.recorder1Timeout.pending = FALSE]
            ELSE [s EXCEPT !.recorder2Timeout.pending = FALSE]
  IN IF s0.isAgentRunning /\ s0.recorders[o].state = "recording"
     THEN RecorderStop(s0, o)
     ELSE IF s0.recorders[o].state # "recording"
          THEN SetActive(s0, label, FALSE) ELSE s0

\* recorder.onstart (src 1801-1805)
onstart(s, o) ==
  [s EXCEPT !.recordingStartTimestamp = s.now, !.recorders[o].chunks = << >>]

\* recorder.ondataavailable (src 1795-1799); a chunk of size > 0 is the audio
\* segment recorded since start().  Its fields from and to are history: the
\* wall clock at the recorder's start event and at this event.
ondataavailable(s, o, size) ==
  IF size > 0
  THEN [s EXCEPT !.recorders[o].chunks =
                    Append(@, [seg |-> s.segCount + 1, size |-> size,
                               from |-> s.recordingStartTimestamp,
                               to |-> s.now]),
                 !.segCount = @ + 1]
  ELSE s

\* The end of recorder.onstop (src 1841-1855)
onstopSwitch(s, o, shouldContinue, startOk) ==
  IF shouldContinue
  THEN LET otherIsActive == IF s.recorders[o].label = 1
                            THEN s.isRecorder2Active ELSE s.isRecorder1Active
       IN IF ~otherIsActive
          THEN startSpecificRecorder(s, s.recorders[o].next, startOk)
          ELSE s
  ELSE [s EXCEPT !.isRecorder1Active = FALSE, !.isRecorder2Active = FALSE]

\* History: blob was finalized while the open requests were in flight.
NoteFinalized(s, blob) ==
  [s EXCEPT !.requests = [r \in DOMAIN s.requests |->
       IF s.requests[r].open
       THEN [s.requests[r] EXCEPT !.since = Append(@, blob)]
       ELSE s.requests[r]]]

\* recorder.onstop after "await captureScreenshot()" (src 1826-1855)
onstopResume(s, o, audioBlob, shouldContinue, screenshotBlob, startOk) ==
  LET s1 == sendDataToServer(NoteFinalized(s, audioBlob), audioBlob,
                             s.recordingStartTimestamp,
                             s.recordingEndTimestamp, screenshotBlob)
      s2 == [s1 EXCEPT !.recorders[o].chunks = << >>]
  IN onstopSwitch(s2, o, shouldContinue, startOk)

\* recorder.onstop (src 1807-1856).  shotMode "sync": captureScreenshot
\* returns null without waiting (no element, element not ready, exception), so
\* the handler resumes in the same task; "async": it waits for canvas.toBlob
\* and the rest of the handler runs in a later task.
onstop(s, o, shotMode, startOk) ==
  LET s1 == SetActive([s EXCEPT !.recordingEndTimestamp = s.now],
                      s.recorders[o].label, FALSE)
      shouldContinue == s1.isAgentRunning
      chunks == s1.recorders[o].chunks
  IN IF chunks # << >>
     THEN IF SumSizes(chunks) < MIN_BLOB_SIZE
          THEN onstopSwitch([s1 EXCEPT !.recorders[o].chunks = << >>],
                            o, shouldContinue, startOk)
          ELSE IF shotMode = "sync" \/ s1.domVideo = 0
          THEN onstopResume(s1, o, chunks, shouldContinue, FALSE, startOk)
          ELSE [s1 EXCEPT !.shots = Append(@, [rec |-> o, audioBlob |-> chunks,
                                               shouldContinue |-> shouldContinue])]
     ELSE onstopSwitch(s1, o, shouldContinue, startOk)

\* startRecordingCycle (src 1734-1785).  createOk: MediaRecorder exists and
\* the destination stream has an active audio track.
startRecordingCycle(s, createOk, startOk) ==
  IF s.isRecorder1Active \/ s.isRecorder2Active THEN s
  ELSE IF s.destination = 0 THEN stopAgent(s)
  ELSE IF ~createOk THEN stopAgent(s)
  ELSE
    LET a == s.recorderCount + 1
        b == s.recorderCount + 2
        s1 == [s EXCEPT !.mediaRecorder1 = a, !.mediaRecorder2 = b,
                        !.recorderCount = b,
                        !.recorders[a] = [NewRecorder EXCEPT !.label = 1, !.next = b],
                        !.recorders[b] = [NewRecorder EXCEPT !.label = 2, !.next = a]]
    IN startSpecificRecorder(s1, a, startOk)

\* ------------------------------------------------------------ YouTube page
\* On a YouTube page the variable call holds the indicators the page showed
\* when the script was loaded, the script's choice of adapter, the private
\* state of the adapter's getRoomId (cachedRoomId, isSearching,
\* waitingResolvers, retries, its pending timers) and, as history, the
\* callers so far, the probes of the current search and what each caller's
\* promise was resolved with.  pageRoomId: the page shows a channel link
\* whose href matches.

\* isYouTubeLiveNow (src 628-656).  timeLive: .ytp-time-display carries
\* ytp-live; premiere: an overlay or subtitle text holds PREMIERE, 首播 or
\* UPCOMING; liveDot: the control bar's live toggle is found.
isYouTubeLiveNow(timeLive, premiere, liveDot) ==
  IF timeLive THEN TRUE
  ELSE IF premiere THEN FALSE
  ELSE liveDot

\* observeVideoElement (src 1556-1587), the part after the observer's
\* construction: the initial check
observeVideoElement(s) ==
  IF s.domVideo # 0
  THEN [s EXCEPT !.runButton.disabled = IF s.isMainSwitchOn THEN FALSE ELSE @]
  ELSE [s EXCEPT !.videoObserver = TRUE, !.runButton.disabled = TRUE]

\* The promises of the callers in waiting are resolved with found, and their
\* then-callbacks run.  Caller 1 is the script's entry (src 735-750): it sets
\* roomId when an identifier came and, in either case, creates the panel and
\* calls observeVideoElement.  The
\* callers not in call.direct are startAgent's refetch (src 1449-1457): they
\* set roomId when an identifier came.  waitForRoomId (src 764-783) resolves at its first try
\* with the promise that the adapter returned, a promise being truthy, so
\* its own retries never run on this platform.
RECURSIVE ResolveAll(_, _, _)
ResolveAll(s, waiting, found) ==
  IF waiting = << >> THEN s
  ELSE LET caller == Head(waiting)
           s1 == [s EXCEPT !.call.results[caller] =
                              Append(@, IF found THEN "id" ELSE "null"),
                           !.roomId = IF found /\ caller \notin s.call.direct
                                      THEN TRUE ELSE @]
           s2 == IF caller = 1
                 THEN observeVideoElement([s1 EXCEPT !.call.panel = TRUE])
                 ELSE s1
       IN ResolveAll(s2, Tail(waiting), found)

\* A lookup that starts a search whether or not one is in flight
getRoomId_NoFlag(s, caller) ==
  IF s.call.cachedRoomId THEN ResolveAll(s, << caller >>, TRUE)
  ELSE [s EXCEPT !.call.waitingResolvers = Append(@, caller),
                 !.call.isSearching = TRUE,
                 !.call.retries = 0, !.call.probes = 0,
                 !.call.timers = @ + 1]

\* platformAdapters.youtube.getRoomId (src 224-241, 279): the promise
\* executor of one call
getRoomId(s, caller) ==
  IF s.call.cachedRoomId THEN ResolveAll(s, << caller >>, TRUE)
  ELSE LET s1 == [s EXCEPT !.call.waitingResolvers = Append(@, caller)]
       IN IF s1.call.isSearching THEN s1
          ELSE [s1 EXCEPT !.call.isSearching = TRUE,
                          !.call.retries = 0, !.call.probes = 0,
                          !.call.timers = @ + 1]

\* tryFindRoomId (src 250-277), run by a timer
tryFindRoomId(s) ==
  LET s1 == [s EXCEPT !.call.timers = @ - 1, !.call.probes = @ + 1] IN
  IF s1.pageRoomId
  THEN [ResolveAll([s1 EXCEPT !.call.cachedRoomId = TRUE],
                   s1.call.waitingResolvers, TRUE)
          EXCEPT !.call.waitingResolvers = << >>, !.call.isSearching = FALSE]
  ELSE IF s1.call.retries < maxRetries
  THEN [s1 EXCEPT !.call.retries = @ + 1, !.call.timers = @ + 1]
  ELSE [ResolveAll(s1, s1.call.waitingResolvers, FALSE)
          EXCEPT !.call.waitingResolvers = << >>, !.call.isSearching = FALSE]

\* ------------------------------------------------------ lifecycle: Start
\* A Start that does not look at the running flag
startAgentReturnsEarly_NoRunningCheck(s) == ~s.isMainSwitchOn
\* The early returns of startAgent (src 1437-1444)
startAgentReturnsEarly(s) == s.isAgentRunning \/ ~s.isMainSwitchOn

\* startAgent (src 1436-1495).  in: the browser's answers during this call
\* (ctxState, sourceOk, createOk, startOk).
startAgent(s, in) ==
  IF startAgentReturnsEarly(s) THEN s
  ELSE IF ~s.roomId
  THEN \* waitForRoomId(adapter, 1, 100): on YouTube the adapter's promise;
       \* elsewhere one probe now, one after 100 ms
       IF s.platform = "YouTube"
       THEN getRoomId([s EXCEPT !.call.callers = @ + 1], s.call.callers + 1)
       ELSE IF s.pageRoomId THEN [s EXCEPT !.roomId = TRUE]
       ELSE [s EXCEPT !.roomRefetchTimers = @ + 1]
  ELSE IF s.domVideo = 0
  THEN [s EXCEPT !.runButton.disabled = TRUE]
  ELSE
    LET r == initializeAudio(s, s.domVideo, in.ctxState, in.sourceOk) IN
    IF r.ok
    THEN LET s1 == [r.s EXCEPT !.isAgentRunning = TRUE, !.startCount = @ + 1]
             s2 == startRecordingCycle(s1, in.createOk, in.startOk)
             s3 == startChatObserver(s2)
             s4 == startVideoReplacementObserver(s3)
         IN [s4 EXCEPT !.runButton.text = "Stop", !.runButton.running = TRUE]
    ELSE [r.s EXCEPT !.isAgentRunning = FALSE,
                     !.runButton = [text |-> "Start", running |-> FALSE,
                                    disabled |-> ~r.s.isMainSwitchOn],
                     !.currentVideoElement = 0]


\* ================================================================= actions
\* --- control panel (src 1153-1203)
\* A main switch that only enables and disables the run button
mainSwitchStops_Never(s) == FALSE
\* When the main-switch handler calls stopAgent (src 1162)
mainSwitchStops(s) == ~s.isMainSwitchOn /\ s.isAgentRunning

\* mainSwitch 'change' handler (src 1153-1166)
mainSwitchChange(s) ==
  LET s1 == [s EXCEPT !.isMainSwitchOn = ~@]
      videoElement == s1.currentVideoElement # 0 \/ s1.domVideo # 0
      s2 == [s1 EXCEPT !.runButton.disabled = ~(s1.isMainSwitchOn /\ videoElement)]
  IN IF mainSwitchStops(s2) THEN stopAgent(s2) ELSE s2

MainSwitchChange == Commit(mainSwitchChange(Cur), "mainSwitchChange")

\* A handler that keeps the queue
ClearedQueue_Kept(queue) == queue
\* What the chat-permission handler does to the queue when permission goes off
ClearedQueue(queue) == << >>

\* chatPermissionSwitch 'change' handler (src 1168-1175)
chatPermissionChange(s) ==
  LET s1 == [s EXCEPT !.isChatPermissionGranted = ~@]
  IN IF ~s1.isChatPermissionGranted
     THEN [Gone(s1, s1.chatQueue, "switch")
             EXCEPT !.chatQueue = ClearedQueue(@)]
     ELSE s1

ChatPermissionChange == Commit(chatPermissionChange(Cur), "chatPermissionChange")

\* muteAudioSwitch 'change' handler (src 1177-1181)
MuteChange == Commit(updateGain([Cur EXCEPT !.isMuted = ~@]), "muteChange")

\* volumeSlider 'input' / 'change' handlers (src 1183-1191), the slider at
\* v: an input event carries a new value, the change event that ends a drag
\* the value the last input event carried.
VolumeInput(v) ==
  LET s1 == [Cur EXCEPT !.volume = v]
  IN Commit(IF ~s1.isMuted THEN updateGain(s1) ELSE s1, "volumeInput")

\* runButton 'click' handler (src 1193-1203); a disabled button does not
\* click.  No more than maxStarts audio initialisations are followed.
RunButtonClickUpTo(in, maxStarts) ==
  /\ ~runButton.disabled
  /\ (~isAgentRunning /\ isMainSwitchOn /\ roomId /\ domVideo # 0)
        => startCount < maxStarts
  /\ Commit(IF isAgentRunning THEN stopAgent(Cur)
            ELSE IF isMainSwitchOn THEN startAgent(Cur, in) ELSE Cur,
            "runButtonClick")

RunButtonClick(in) == RunButtonClickUpTo(in, MaxStarts)

\* The two lifecycle operations called directly
StartAgentCall(in) ==
  /\ (~isAgentRunning /\ isMainSwitchOn /\ roomId /\ domVideo # 0)
        => startCount < MaxStarts
  /\ Commit(startAgent(Cur, in), "startAgent")

StopAgentCall == Commit(stopAgent(Cur), "stopAgent")

\* --- environment and timers
Tick == now < MaxTime /\ Commit([Cur EXCEPT !.now = @ + 1], "tick")

\* ms milliseconds pass on the wall clock (Date.now()), up to maxNow
Elapse(ms, maxNow) ==
  /\ now + ms <= maxNow
  /\ Commit([Cur EXCEPT !.now = @ + ms], "elapse")

\* The two observers of document.body (childList, subtree) are notified of
\* a node added or removed anywhere in the page's document: the callback of
\* observeVideoElement (src 1560-1573) and the callback of the replacement
\* observer (src 2523-2526), each while it is connected.
bodyObservers(s, sourceOk) ==
  LET s2 == IF s.videoObserver /\ s.domVideo # 0
            THEN [s EXCEPT !.videoObserver = FALSE,
                           !.runButton.disabled =
                              IF s.isMainSwitchOn THEN FALSE ELSE @]
            ELSE s
  IN IF s2.videoReplacementObserver
     THEN checkForVideoReplacement(s2, sourceOk) ELSE s2

\* A mutation under document.body after which the adapter's locator finds
\* element e (0: none).
DomMutation(e, sourceOk) ==
  Commit(bodyObservers([Cur EXCEPT !.domVideo = e], sourceOk), "domMutation")

\* The page inserts the chat container.  On Bilibili and Twitch it is part
\* of the page's document and its insertion is a mutation under
\* document.body (YouTube's is in the document of an iframe, src 351-365).
ChatContainerAppears(sourceOk) ==
  /\ ~chatContainer
  /\ Commit(LET s1 == [Cur EXCEPT !.chatContainer = TRUE]
            IN IF platform = "YouTube" THEN s1
               ELSE bodyObservers(s1, sourceOk),
            "chatContainerAppears")

\* setTimeout(startChatObserver, 1000) fires (src 1276)
ChatRetryTimer ==
  /\ chatRetryTimers > 0
  /\ Commit(startChatObserver([Cur EXCEPT !.chatRetryTimers = @ - 1]),
            "chatRetryTimer")

PageRoomIdAppears ==
  /\ ~pageRoomId
  /\ Commit([Cur EXCEPT !.pageRoomId = TRUE], "pageRoomIdAppears")

\* The second probe of waitForRoomId(adapter, 1, 100) and the then-callback
\* of startAgent (src 1449-1457)
RoomRefetchTimer ==
  /\ roomRefetchTimers > 0
  /\ Commit([Cur EXCEPT !.roomRefetchTimers = @ - 1,
                        !.roomId = IF pageRoomId THEN TRUE ELSE @],
            "roomRefetchTimer")

\* audioContext.resume() takes effect (src 1616-1619)
AudioContextResumed ==
  /\ audioContext = "suspended"
  /\ Commit([Cur EXCEPT !.audioContext = "running"], "audioContextResumed")

\* One message node is inserted into the chat container, the page showing
\* no more than maxMsgs of them: the chat observer reports it, and on
\* Bilibili and Twitch, whose chat container is part of the page's document,
\* the insertion is a mutation under document.body as well (YouTube's chat
\* is in the document of an iframe, src 351-365).  sourceOk: whether
\* createMediaElementSource works, should the replacement check call it.
ObserveChatUpTo(uname, content, sourceOk, maxMsgs) ==
  /\ chatObserver
  /\ msgCount < maxMsgs
  /\ Commit(LET s1 == observerCallback(Cur, uname, content)
            IN IF platform = "YouTube" THEN s1
               ELSE bodyObservers(s1, sourceOk),
            "observeChat")

ObserveChat(uname, content, sourceOk) ==
  ObserveChatUpTo(uname, content, sourceOk, MaxMsgs)

\* The interval timer of slot label fires, RECORDING_INTERVAL_MS after the
\* recorder's start(): the queued 'start' event has been delivered by then.
RecorderTimeout(label, maxSeg) ==
  /\ IF label = 1 THEN recorder1Timeout.pending ELSE recorder2Timeout.pending
  /\ LET o == IF label = 1 THEN recorder1Timeout.rec ELSE recorder2Timeout.rec
     IN IF recorders[o].events = << >> THEN TRUE
        ELSE Head(recorders[o].events) # "start"
  /\ segCount < maxSeg
  /\ Commit(stopFunction(Cur, label), "recorderTimeout")

\* recorder.onerror (src 1858-1873)
onerror_recorder(s, o, sourceOk) ==
  LET s1 == SetActive(s, s.recorders[o].label, FALSE)
  IN IF s1.isAgentRunning THEN checkForVideoReplacement(s1, sourceOk) ELSE s1

\* Recorder object o fails while it records: the browser inactivates it and
\* dispatches 'error', then 'dataavailable' and 'stop' as for stop().
RecorderError(o, sourceOk, maxSeg) ==
  /\ recorders[o].state = "recording"
  /\ segCount < maxSeg
  /\ Commit(onerror_recorder(RecorderStop(Cur, o), o, sourceOk), "onerror")

\* The next queued event of recorder object o is dispatched: 'start', or
\* 'dataavailable' (a blob of the given size) followed by 'stop'.
RecorderEvent(o, size, shotMode, startOk) ==
  /\ recorders[o].events # << >>
  /\ LET ev == Head(recorders[o].events)
         s0 == [Cur EXCEPT !.recorders[o].events = Tail(@)]
     IN IF ev = "start"
        THEN Commit(onstart(s0, o), "onstart")
        ELSE Commit(onstop(ondataavailable(s0, o, size), o, shotMode, startOk),
                    "onstop")

\* canvas.toBlob answers the k-th waiting stop handler
ScreenshotResolved(k, screenshotBlob, startOk) ==
  /\ k \in DOMAIN shots
  /\ LET w == shots[k]
         s0 == [Cur EXCEPT !.shots = RemoveAt(@, k)]
     IN Commit(onstopResume(s0, w.rec, w.audioBlob, w.shouldContinue,
                            screenshotBlob, startOk),
               "onstopResume")

\* Request r completes
XhrComplete(r, outcome) ==
  /\ r \in DOMAIN requests
  /\ requests[r].open
  /\ (outcome.kind = "success" /\ parseMessages(outcome.resp) # << >>)
        => respCount < MaxResp
  /\ Commit(xhrCompletion(Cur, r, outcome), "xhrComplete")

\* The adapter's sendChatMessage answers the k-th waiting drain
AdapterReturn(k, status) ==
  /\ k \in DOMAIN adapterCalls
  /\ Commit(afterSendChatMessage([Cur EXCEPT !.adapterCalls = RemoveAt(@, k)],
                                 adapterCalls[k], status),
            "adapterReturn")

QueueTimer_KeepsLock(k) ==
  /\ k \in DOMAIN queueTimers
  /\ Commit(processChatQueue([Cur EXCEPT !.queueTimers = RemoveAt(@, k)]),
            "queueTimer")

\* A drain timer fires: isProcessingQueue = false; processChatQueue()
QueueTimer(k) ==
  /\ k \in DOMAIN queueTimers
  /\ Commit(processChatQueue([Cur EXCEPT !.queueTimers = RemoveAt(@, k),
                                         !.isProcessingQueue = FALSE]),
            "queueTimer")

\* --- the script's entry on a YouTube page
\* The adapter loop and the conditional initialisation (src 700-755):
\* isApplicable (src 215) on a /watch page, then the live check; with an
\* adapter chosen, waitForRoomId calls the adapter's getRoomId.
PlatformSelection ==
  /\ call.fn = "youtube" /\ ~call.loaded
  /\ LET s1 == [Cur EXCEPT !.call.loaded = TRUE] IN
     Commit(IF call.watchPage /\ isYouTubeLiveNow(call.timeLive, call.premiere,
                                                  call.liveDot)
            THEN getRoomId([s1 EXCEPT !.call.adapter = TRUE,
                                      !.call.callers = 1], 1)
            ELSE s1,
            "platformSelection")

\* adapter.getRoomId() called on its own, the promise given no callback
GetRoomIdCall ==
  /\ call.fn = "youtube" /\ call.adapter
  /\ call.callers < 1 + MaxCalls
  /\ Commit(getRoomId([Cur EXCEPT !.call.callers = @ + 1,
                                  !.call.direct = @ \cup {call.callers + 1}],
                       call.callers + 1),
            "getRoomId")

\* A timer of the search fires: setTimeout(tryFindRoomId, ...) (src 271, 281)
TryFindRoomIdTimer ==
  /\ call.fn = "youtube" /\ call.timers > 0
  /\ Commit(tryFindRoomId(Cur), "tryFindRoomId")

\* --- functions called on their own
\* splitMessage(message) with FORCE_CHAT_LENGTH set to force, on the page of
\* the active platform
SplitMessageCall ==
  /\ call.fn = "splitMessage" /\ ~call.returned
  /\ Commit([Cur EXCEPT !.call.returned = TRUE,
                        !.call.result =
                           splitMessageWith(call.message,
                                            ChatLengthLimit(call.force, platform))],
            "splitMessage")

\* parseServerResponse(resp)
ParseServerResponseCall ==
  /\ call.fn = "parseServerResponse" /\ ~call.returned
  /\ Commit([Cur EXCEPT !.call.returned = TRUE,
                        !.call.result = parseServerResponse(call.resp)],
            "parseServerResponse")

\* captureScreenshot() on the element the page shows
CaptureScreenshotCall ==
  /\ call.fn = "captureScreenshot" /\ ~call.returned
  /\ Commit([Cur EXCEPT !.call.returned = TRUE,
                        !.call.result =
                           captureScreenshotCanvas(domVideo # 0, call.readyState,
                                                   call.videoWidth,
                                                   call.videoHeight)],
            "captureScreenshot")

\* ==================================================================== Init
\* The page after createControlPanel() and observeVideoElement() (src 735-750)
\* on a page of platform pf where the locator finds element dv, the chat
\* container exists or not (cc) and the room id was resolved or not (rid).
PageState(pf, dv, cc, rid) == [
  isMainSwitchOn |-> FALSE, isChatPermissionGranted |-> FALSE,
  isMuted |-> FALSE, volume |-> DEFAULT_VOLUME,
  runButton |-> [text |-> "Start", running |-> FALSE, disabled |-> TRUE],
  isAgentRunning |-> FALSE, roomId |-> rid, currentVideoElement |-> 0,
  videoReplacementObserver |-> FALSE, videoObserver |-> (dv = 0),
  audioContext |-> "none", destination |-> 0, gainNode |-> FALSE,
  gain |-> DEFAULT_GAIN, mediaElementSource |-> 0,
  mediaRecorder1 |-> 0, mediaRecorder2 |-> 0,
  recorders |-> [o \in 1..MaxRecObj |-> NewRecorder], recorderCount |-> 0,
  recorder1Timeout |-> NoTimer, recorder2Timeout |-> NoTimer,
  isRecorder1Active |-> FALSE, isRecorder2Active |-> FALSE,
  recordingStartTimestamp |-> 0, recordingEndTimestamp |-> 0,
  shots |-> << >>,
  isSending |-> FALSE, isAccumulating |-> FALSE,
  accumulatedChunks |-> << >>, requests |-> << >>,
  realtimeChatBuffer |-> << >>, chatObserver |-> FALSE, chatRetryTimers |-> 0,
  chatQueue |-> << >>, isProcessingQueue |-> FALSE,
  adapterCalls |-> << >>, queueTimers |-> << >>,
  now |-> 0, domVideo |-> dv, chatContainer |-> cc, pageRoomId |-> rid,
  roomRefetchTimers |-> 0, platform |-> pf,
  segCount |-> 0, msgCount |-> 0, fragCount |-> 0, respCount |-> 0,
  startCount |-> 0, captured |-> {}, posted |-> {}, gone |-> {},
  gainRef |-> DEFAULT_GAIN, call |-> NoCall ]

InitPage(pf, dv, cc, rid) == Holds(PageState(pf, dv, cc, rid), "init")

\* ================================================================== inputs
BrowserOk == [ctxState |-> "running", sourceOk |-> TRUE, createOk |-> TRUE,
              startOk |-> TRUE]
BrowserAnswers == [ctxState : {"running", "suspended"}, sourceOk : BOOLEAN,
                   createOk : BOOLEAN, startOk : BOOLEAN]

\* Segment sizes on either side of the threshold of src 1820
SMALL_BLOB == MIN_BLOB_SIZE - 1
BIG_BLOB == MIN_BLOB_SIZE

NoResp == [status |-> "none"]
Failure(kind) == [kind |-> kind, resp |-> NoResp]
\* A success payload whose chat_messages is the array of the objects
\* {content: msgs[i]}, msgs a list of texts
Success(msgs) ==
  [kind |-> "success",
   resp |-> [status |-> "success",
             chat_messages |->
               JsValue("array", [i \in DOMAIN msgs |->
                                   [content |-> JsValue("string", msgs[i])]])]]

\* The ways a request completes (src 2216-2315)
Outcomes == {"success", "apperr", "badjson", "http", "neterr", "timeout"}

ShortMsg == << "h", "i" >>
LongMsg == << "a","a","a","a","a","a","a","a","a","a","a", " ",
              "b","b","b","b","b","b","b","b","b","b","b" >>

\* The platforms an adapter exists for (src 31-617)
Platforms == {"Bilibili", "YouTube", "Twitch"}

\* Messages for the splitter: every text of up to MaxLen characters over a
\* letter, a blank and a comma, and long texts of n words of w letters each,
\* the words joined by sep, with a given lead and tail.
SplitAlphabet == {"a", " ", ","}
ShortTexts == UNION { [1..n -> SplitAlphabet] : n \in 0..MaxLen }

RECURSIVE Letters(_)
Letters(w) == IF w = 0 THEN << >> ELSE << "a" >> \o Letters(w - 1)

RECURSIVE Words(_, _, _)
Words(n, w, sep) ==
  IF n = 0 THEN << >>
  ELSE IF n = 1 THEN Letters(w)
  ELSE Letters(w) \o sep \o Words(n - 1, w, sep)

LongTexts ==
  { Words(nw[1], nw[2], sep) :
      nw \in { << 1, 21 >>, << 1, 45 >>, << 1, 101 >>, << 2, 10 >>, << 2, 21 >>,
               << 2, 60 >>, << 3, 7 >>, << 3, 45 >>, << 6, 20 >> },
      sep \in { << " " >>, << ",", " " >>, << "U+3002" >>, << "!", "?" >> } }

\* Values of FORCE_CHAT_LENGTH: 0 (no override) and small overrides
Forces == {0, 1, 2, 3}

\* Success payloads: status "success" and any of the other fields, present
\* with the given value or left out (undefined); text is the value of the
\* four fields recognized_text_youdao, recognized_text_whisper, image_url and
\* LLM_response_raw, chat what chat_messages is: missing, a string, or an
\* array of one message, a number, a blank string and an element without
\* content.
Wire(think, continues, notepad, cleared, text, chat) ==
  LET all == [internal_think |-> think, continues |-> continues,
              new_notepad |-> notepad, context_cleared |-> cleared,
              recognized_text_youdao |-> text, recognized_text_whisper |-> text,
              image_url |-> text, LLM_response_raw |-> text]
      present == { f \in DOMAIN all : all[f] # JsUndefined }
      base == [f \in present \cup {"status"} |->
                 IF f = "status" THEN JsValue("string", "success") ELSE all[f]]
  IN IF chat = "string"
     THEN base @@ [chat_messages |-> JsValue("string", ShortMsg)]
     ELSE IF chat = "array"
     THEN base @@ [chat_messages |->
                     JsValue("array", << [content |-> JsValue("string", ShortMsg)],
                                         [content |-> JsValue("number", 5)],
                                         [content |-> JsValue("string", << " " >>)],
                                         [content |-> JsUndefined] >>)]
     ELSE base

WireResponses ==
  { Wire(think, continues, notepad, cleared, text, chat) :
      think \in {JsUndefined, JsValue("string", << >>), JsValue("string", << "x" >>)},
      continues \in {JsUndefined, JsNull, JsValue("number", 0)},
      notepad \in {JsUndefined, JsValue("array", << << "n" >> >>)},
      cleared \in {JsUndefined, JsValue("boolean", TRUE)},
      text \in {JsUndefined, JsValue("string", << "x" >>)},
      chat \in {"missing", "array", "string"} }

\* Frame widths and heights of video sources (0: no frame decoded yet; 91,
\* 321, 507 and 512 give quotients that are exactly a half: 507 x 480,
\* 321 x 480, 512 x 91) and the readyState values HAVE_NOTHING,
\* HAVE_METADATA and HAVE_ENOUGH_DATA
FrameSizes == {0, 91, 144, 240, 321, 360, 480, 507, 512, 640, 720, 768, 854,
               1080, 1280, 1366, 1920, 2160, 3840}
ReadyStates == {0, 1, 4}

\* ========================================================== specifications
\* The page after the user has switched the main switch on and pressed Start,
\* every browser call having succeeded.
RunningState(pf) ==
  startAgent(mainSwitchChange(PageState(pf, 1, TRUE, TRUE)), BrowserOk)

\* --- recording and upload while the agent runs
InitUpload == Holds(RunningState("Bilibili"), "runButtonClick")

NextUpload ==
  \/ \E label \in {1, 2} : RecorderTimeout(label, MaxSeg)
  \/ \E o \in 1..MaxRecObj, size \in {SMALL_BLOB, BIG_BLOB},
        mode \in {"sync", "async"} : RecorderEvent(o, size, mode, TRUE)
  \/ \E k \in 1..2, shot \in BOOLEAN : ScreenshotResolved(k, shot, TRUE)
  \/ \E r \in 1..(MaxSeg + MaxStarts),
        out \in {Success(<< >>), Failure("http"), Failure("neterr"),
                 Failure("timeout")} :
          XhrComplete(r, out)

SpecUpload == InitUpload /\ [][NextUpload]_vars

\* --- chat capture and interval attribution while the agent runs
InitChat == Holds(RunningState("Bilibili"), "runButtonClick")

NextChat ==
  \/ Tick
  \/ \E ok \in BOOLEAN : ObserveChat("u", msgCount + 1, ok)
  \/ \E label \in {1, 2} : RecorderTimeout(label, MaxSegChat)
  \/ \E o \in 1..MaxRecObj, mode \in {"sync", "async"} :
        RecorderEvent(o, BIG_BLOB, mode, TRUE)
  \/ \E k \in 1..2 : ScreenshotResolved(k, TRUE, TRUE)
  \/ \E r \in 1..(MaxSegChat + MaxStarts) : XhrComplete(r, Success(<< >>))

SpecChat == InitChat /\ [][NextChat]_vars

\* --- duplicate chat nodes against the interval finalizations.  The page
\* shows chat lines of one author with one of two contents, 2, 3 or 6
\* seconds apart.
Gaps == {2000, 3000, 6000}
Contents == {1, 2}

InitDedup == Holds(RunningState("Bilibili"), "runButtonClick")

NextDedup ==
  \/ \E ms \in Gaps : Elapse(ms, MaxClock)
  \/ \E c \in Contents, ok \in BOOLEAN : ObserveChat("u", c, ok)
  \/ \E label \in {1, 2} : RecorderTimeout(label, MaxSegDedup)
  \/ \E o \in 1..MaxRecObj : RecorderEvent(o, BIG_BLOB, "sync", TRUE)
  \/ \E r \in 1..(MaxSegDedup + MaxStarts) : XhrComplete(r, Success(<< >>))

SpecDedup == InitDedup /\ [][NextDedup]_vars

\* --- a busy chat: the page inserts message after message, all different,
\* while no interval is finalized
NextCap == \E ok \in BOOLEAN : ObserveChatUpTo("u", msgCount + 1, ok, MaxCapMsgs)

SpecCap == InitDedup /\ [][NextCap]_vars

\* --- a YouTube page from the script's entry to a known page identity: the
\* indicators of the page are any, the video element is there or appears
\* later, the channel link may appear at any time,
\* the adapter's lookup is also called on its own, and once the panel exists the user turns the main switch and clicks Start
\* while the identity is unknown.
InitYouTube ==
  \E watchPage, timeLive, premiere, liveDot \in BOOLEAN, dv \in {0, 1} :
    Holds([PageState("YouTube", dv, TRUE, FALSE) EXCEPT
             !.videoObserver = FALSE,
             !.call = [fn |-> "youtube", watchPage |-> watchPage,
                       timeLive |-> timeLive, premiere |-> premiere,
                       liveDot |-> liveDot, loaded |-> FALSE,
                       adapter |-> FALSE, panel |-> FALSE,
                       cachedRoomId |-> FALSE, isSearching |-> FALSE,
                       waitingResolvers |-> << >>, retries |-> 0, timers |-> 0,
                       callers |-> 0, probes |-> 0,
                       direct |-> {},
                       results |-> [c \in 1..(1 + MaxCalls) |-> << >>]]],
          "init")

NextYouTube ==
  \/ PlatformSelection
  \/ TryFindRoomIdTimer
  \/ GetRoomIdCall
  \/ PageRoomIdAppears
  \/ domVideo = 0 /\ DomMutation(1, TRUE)
  \/ call.panel /\ MainSwitchChange
  \/ call.panel /\ ~roomId /\ call.callers < 1 + MaxCalls
       /\ RunButtonClick(BrowserOk)

SpecYouTube == InitYouTube /\ [][NextYouTube]_vars

\* --- the message splitter called on its own
InitSplit ==
  \E pf \in Platforms, force \in Forces :
  \E m \in { t \in IF force = 0 THEN ShortTexts \cup LongTexts ELSE ShortTexts :
                Trim(t) # << >> } :
    Holds([PageState(pf, 1, TRUE, TRUE) EXCEPT
             !.call = [fn |-> "splitMessage", message |-> m, force |-> force,
                       returned |-> FALSE, result |-> << >>]],
          "init")

NextSplit == SplitMessageCall

SpecSplit == InitSplit /\ [][NextSplit]_vars

\* --- the response parser, called on its own and by the upload client: the
\* agent runs with chat permission on, and the backend answers every upload
\* with the payload the parser is called on.
InitParse ==
  \E resp \in WireResponses :
    Holds([chatPermissionChange(RunningState("Bilibili")) EXCEPT
             !.call = [fn |-> "parseServerResponse", resp |-> resp,
                       returned |-> FALSE, result |-> NoCall]],
          "init")

NextParse ==
  \/ ParseServerResponseCall
  \/ \E label \in {1, 2} : RecorderTimeout(label, MaxSegParse)
  \/ \E o \in 1..MaxRecObj : RecorderEvent(o, BIG_BLOB, "sync", TRUE)
  \/ \E r \in 1..(MaxSegParse + MaxStarts) :
        XhrComplete(r, [kind |-> "success", resp |-> call.resp])
  \/ \E k \in 1..2 : AdapterReturn(k, "success")

SpecParse == InitParse /\ [][NextParse]_vars

\* --- one response followed to its post on YouTube: the agent runs with chat
\* permission on, the backend answers with one message of 45 characters or
\* with none, and the adapter's send routine answers a post with any of its
\* statuses or throws.
Msg45 == Words(6, 5, << ",", " ", " " >>)

InitE2E ==
  Holds(chatPermissionChange(RunningState("YouTube")), "chatPermissionChange")

NextE2E ==
  \/ \E label \in {1, 2} : RecorderTimeout(label, MaxSegE2E)
  \/ \E o \in 1..MaxRecObj : RecorderEvent(o, BIG_BLOB, "sync", TRUE)
  \/ \E r \in 1..(MaxSegE2E + MaxStarts), chat \in BOOLEAN :
        XhrComplete(r, IF chat THEN Success(<< Msg45 >>) ELSE Success(<< >>))
  \/ \E k \in 1..2, status \in {"success", "disabled", "not_found",
                                 "error", "throw"} : AdapterReturn(k, status)
  \/ \E k \in 1..2 : QueueTimer(k)

SpecE2E == InitE2E /\ [][NextE2E]_vars

\* --- the screenshot's canvas, captureScreenshot called on its own
InitShot ==
  \E dv \in {0, 1}, rs \in ReadyStates, w \in FrameSizes, h \in FrameSizes :
    Holds([PageState("Bilibili", dv, TRUE, TRUE) EXCEPT
             !.call = [fn |-> "captureScreenshot", readyState |-> rs,
                       videoWidth |-> w, videoHeight |-> h,
                       returned |-> FALSE, result |-> NoCall]],
          "init")

NextShot == CaptureScreenshotCall

SpecShot == InitShot /\ [][NextShot]_vars

\* --- Stop against the recorders' deferred callbacks: the run button, the
\* interval timers, the recorder events and the screenshots they wait for
NextCancel ==
  \/ RunButtonClick(BrowserOk)
  \/ \E label \in {1, 2} : RecorderTimeout(label, MaxSegCancel)
  \/ \E o \in 1..MaxRecObj, mode \in {"sync", "async"} :
        RecorderEvent(o, BIG_BLOB, mode, TRUE)
  \/ \E k \in 1..2 : ScreenshotResolved(k, TRUE, TRUE)
  \/ \E r \in 1..(MaxSegCancel + MaxStarts) : XhrComplete(r, Success(<< >>))

SpecCancel == InitUpload /\ [][NextCancel]_vars

\* --- Stop followed by Start: the callbacks that the first session left
\* behind run in the second one
NextRestart ==
  \/ RunButtonClickUpTo(BrowserOk, MaxRestarts)
  \/ \E label \in {1, 2} : RecorderTimeout(label, MaxSegRestart)
  \/ \E o \in 1..MaxRecObj : RecorderEvent(o, BIG_BLOB, "sync", TRUE)
  \/ \E r \in 1..(MaxSegRestart + MaxRestarts) : XhrComplete(r, Success(<< >>))

SpecRestart == InitUpload /\ [][NextRestart]_vars

\* --- the chat observer's setup against Stop, on a page whose chat container
\* does not exist yet when the script starts
InitObserver == InitPage("Bilibili", 1, FALSE, TRUE)

NextObserver ==
  \/ MainSwitchChange
  \/ RunButtonClick(BrowserOk)
  \/ \E ok \in BOOLEAN : ChatContainerAppears(ok)
  \/ ChatRetryTimer
  \/ \E ok \in BOOLEAN : ObserveChat("u", msgCount + 1, ok)
  \/ \E o \in 1..MaxRecObj : RecorderEvent(o, BIG_BLOB, "sync", TRUE)

SpecObserver == InitObserver /\ [][NextObserver]_vars

\* --- the outbound send queue, with Stop/Start and the permission switch
\* It starts after one chat message was captured and the chat-permission
\* switch was turned on.
InitQueue ==
  Holds(chatPermissionChange(observerCallback(RunningState("Bilibili"), "u", 1)),
        "chatPermissionChange")

NextQueue ==
  \/ ChatPermissionChange
  \/ RunButtonClick(BrowserOk)
  \/ \E label \in {1, 2} : RecorderTimeout(label, MaxSegQueue)
  \/ \E o \in 1..MaxRecObj : RecorderEvent(o, BIG_BLOB, "sync", TRUE)
  \/ \E r \in 1..(MaxSegQueue + MaxStarts),
        out \in {Success(<< IF respCount = 0 THEN LongMsg ELSE ShortMsg >>)} :
          XhrComplete(r, out)
  \/ \E k \in 1..2,
        status \in {"success", "disabled", "not_found", "error", "busy", "throw"} :
          AdapterReturn(k, status)
  \/ \E k \in 1..2 : QueueTimer(k)

SpecQueue == InitQueue /\ [][NextQueue]_vars

\* --- the chat-permission switch against the upload side, the agent running
NextSwitch ==
  \/ ChatPermissionChange
  \/ \E label \in {1, 2} : RecorderTimeout(label, MaxSegSwitch)
  \/ \E o \in 1..MaxRecObj : RecorderEvent(o, BIG_BLOB, "sync", TRUE)
  \/ \E r \in 1..(MaxSegSwitch + MaxStarts), kind \in Outcomes :
        XhrComplete(r, IF kind = "success"
                       THEN Success(<< IF respCount = 0 THEN LongMsg ELSE ShortMsg >>)
                       ELSE Failure(kind))
  \/ \E k \in 1..2,
        status \in {"success", "disabled", "not_found", "error", "busy", "throw"} :
          AdapterReturn(k, status)
  \/ \E k \in 1..2 : QueueTimer(k)

SpecSwitch == InitQueue /\ [][NextSwitch]_vars

\* The same steps where every adapter send call returns and every delay timer
\* fires; nothing obliges the backend to send a further response.
SpecProgress ==
  /\ InitQueue /\ [][NextSwitch]_vars
  /\ WF_vars(\E k \in 1..2,
                status \in {"success", "disabled", "not_found", "error", "busy", "throw"} :
                  AdapterReturn(k, status))
  /\ WF_vars(\E k \in 1..2 : QueueTimer(k))

\* --- the lifecycle: the controls, the page and direct calls of Start/Stop
InitLife == \E dv \in {0, 1} : InitPage("Bilibili", dv, TRUE, TRUE)

NextLife ==
  \/ MainSwitchChange
  \/ \E in \in BrowserAnswers : RunButtonClick(in)
  \/ \E in \in BrowserAnswers : StartAgentCall(in)
  \/ StopAgentCall
  \/ \E e \in {0, 1, 2}, sourceOk \in BOOLEAN : DomMutation(e, sourceOk)
  \/ AudioContextResumed
  \/ \E label \in {1, 2} : RecorderTimeout(label, MaxSegLife)
  \/ \E o \in 1..MaxRecObj, startOk \in BOOLEAN :
        RecorderEvent(o, BIG_BLOB, "sync", startOk)
  \/ \E o \in 1..MaxRecObj, sourceOk \in BOOLEAN :
        RecorderError(o, sourceOk, MaxSegLife)

SpecLife == InitLife /\ [][NextLife]_vars

\* --- the audio graph under the mute switch and the volume slider
Volumes == {0, DEFAULT_VOLUME, 100}

InitAudio == InitPage("Bilibili", 1, TRUE, TRUE)

NextAudio ==
  \/ MainSwitchChange
  \/ \E ctxState \in {"running", "suspended"} :
        RunButtonClick([BrowserOk EXCEPT !.ctxState = ctxState])
  \/ MuteChange
  \/ \E v \in Volumes : VolumeInput(v)
  \/ AudioContextResumed
  \/ \E e \in {1, 2} : DomMutation(e, TRUE)
  \/ \E label \in {1, 2} : RecorderTimeout(label, MaxSegLife)
  \/ \E o \in 1..MaxRecObj : RecorderEvent(o, BIG_BLOB, "sync", TRUE)

SpecAudio == InitAudio /\ [][NextAudio]_vars

\* ================================================================== claims
\* The requests in flight and the recorders that record
Open == { r \in DOMAIN requests : requests[r].open }
Recording == { o \in 1..MaxRecObj : recorders[o].state = "recording" }
\* Where a captured message is
InBuffer(id) == \E i \in DOMAIN realtimeChatBuffer : realtimeChatBuffer[i].id = id
Uploaded(id) ==
  \E r \in DOMAIN requests :
    \E j \in DOMAIN requests[r].chats : requests[r].chats[j].id = id
\* The last step was a stop handler, up to or after its screenshot
Finalized == lastOp \in {"onstop", "onstopResume"}
\* The ids of the fragments in the queue and of those the adapter holds
Waiting == { chatQueue[i].id : i \in DOMAIN chatQueue }
InHand == { adapterCalls[k].id : k \in DOMAIN adapterCalls }

\* C1 -- single-flight upload: in every reachable state at most one upload
\* request is outstanding (sent and not yet completed).
C1_SingleFlight == Cardinality(Open) <= 1

\* C2 -- no chat message lost: a captured message is still in the rolling
\* buffer or is carried by some upload request (only buffered messages can
\* still be uploaded).
C2_NoChatLost == \A id \in captured : InBuffer(id) \/ Uploaded(id)

\* C3 -- gapless capture: while the agent runs, from the first recorder start
\* on, at least one of the two recorders is recording in every state.
C3_Gapless ==
  (isAgentRunning /\ recorderCount > 0) => Recording # {}

\* C4 -- mute and volume never affect the recording path: the level that
\* reaches the recordable sink equals the level it has in the run that
\* differs only by having no mute-switch and no volume-slider change.
C4_RecordingLevelIndependent == SinkLevel(gain) = SinkLevel(gainRef)

\* C5 -- accumulation merge: when a request completes during whose flight
\* exactly two segments s1, s2 were finalized, the completion sends one
\* request whose audio is s1 followed by s2, with an empty chat array and no
\* screenshot, and leaves the accumulation empty.
C5_AccumulationMerge ==
  [][ \A r \in DOMAIN requests :
        (requests[r].open /\ ~requests'[r].open /\ Len(requests[r].since) = 2)
        => /\ Len(requests') = Len(requests) + 1
           /\ requests'[Len(requests')].audio = Concat(requests[r].since)
           /\ requests'[Len(requests')].chats = << >>
           /\ ~requests'[Len(requests')].shot
           /\ accumulatedChunks' = << >> ]_vars

\* C6 -- interval attribution: a stop handler that finalizes [start, end)
\* with no upload in flight sends a request whose chat array is exactly the
\* buffered messages with start <= timestamp < end, and leaves in the buffer
\* exactly the buffered messages with timestamp >= end.
C6_IntervalAttribution ==
  [][ (Open = {} /\ Finalized' /\ Len(requests') = Len(requests) + 1)
      => LET rq == requests'[Len(requests')]
             In(chat) == rq.start <= chat.timestamp /\ chat.timestamp < rq.end
             After(chat) == chat.timestamp >= rq.end
         IN /\ rq.start = recordingStartTimestamp
            /\ rq.end = recordingEndTimestamp'
            /\ rq.chats = SelectSeq(realtimeChatBuffer, In)
            /\ realtimeChatBuffer' = SelectSeq(realtimeChatBuffer, After) ]_vars

\* C6 witness: a finalize has just sent a request carrying a message and
\* kept a message stamped at the interval's end.
C6_Witness ==
  /\ Finalized /\ requests # << >> /\ realtimeChatBuffer # << >>
  /\ LET rq == requests[Len(requests)]
     IN /\ rq.open /\ rq.chats # << >> /\ rq.start > 0
        /\ realtimeChatBuffer[1].timestamp = rq.end

\* C7 -- queue head-of-line retry: a fragment that comes back from the
\* adapter into the queue is put at its head, in front of the fragments that
\* waited behind it, and whenever a fragment is handed to the adapter no
\* earlier-enqueued fragment is still waiting or in the adapter's hands
\* (fragment ids follow the order of enqueueing).
C7_HeadOfLineRetry ==
  [][ /\ \A k \in DOMAIN adapterCalls :
           (adapterCalls[k].id \notin InHand' /\ adapterCalls[k].id \in Waiting')
           => chatQueue' = << adapterCalls[k] >> \o chatQueue
      /\ \A f \in InHand' \ InHand :
           \A g \in Waiting' \cup (InHand' \ {f}) : f < g ]_vars

\* C7 witness: a fragment came back "disabled" and waits for its retry at
\* the head of the queue, in front of the fragment that was behind it and of
\* one enqueued by a later response.
C7_Witness ==
  /\ lastOp = "adapterReturn" /\ respCount = 2
  /\ queueTimers # << >> /\ queueTimers[1].lo = 3000
  /\ Len(chatQueue) = 3
  /\ chatQueue[1].id = 1 /\ chatQueue[2].id = 2 /\ chatQueue[3].id = 3

\* C8 -- lifecycle idempotence: Stop called while the running flag is false
\* and Start called while it is true change no variable of the program (so
\* no second audio initialisation is counted either).
C8_LifecycleIdempotent ==
  [][ (\/ lastOp' = "stopAgent" /\ ~isAgentRunning
       \/ lastOp' = "startAgent" /\ isAgentRunning)
      => Cur' = Cur ]_vars

\* C8 witness: Start was called while the agent ran: the only initialisation
\* happened before the segment was recorded, and the last step was the call.
C8_Witness ==
  lastOp = "startAgent" /\ isAgentRunning /\ startCount = 1 /\ segCount > 0

\* C9 -- send gating at send time: a fragment is handed to the adapter only
\* in a step in which chat permission is on and the agent runs, and a drain
\* timer that fires while either is off empties the queue and hands nothing
\* to the adapter.
C9_SendGating ==
  [][ /\ InHand' \ InHand # {}
           => (isChatPermissionGranted /\ isAgentRunning)
      /\ (lastOp' = "queueTimer" /\ ~(isChatPermissionGranted /\ isAgentRunning))
           => (chatQueue' = << >> /\ InHand' \subseteq InHand /\ posted' = {}) ]_vars

\* C9 witness: a drain timer fired after Stop, with permission still on, and
\* discarded the fragments that were waiting.
C9_Witness ==
  /\ lastOp = "queueTimer" /\ ~isAgentRunning /\ isChatPermissionGranted
  /\ \E g \in gone : g.by = "drain"
  /\ chatQueue = << >> /\ adapterCalls = << >>

\* C10 -- the chat-permission switch turned off leaves the send queue empty
\* and does not modify the sending flag, the audio accumulation, the rolling
\* chat buffer or the requests in flight.
C10_PermissionOff ==
  [][ (lastOp' = "chatPermissionChange" /\ ~isChatPermissionGranted')
      => /\ chatQueue' = << >>
         /\ UNCHANGED << isSending, isAccumulating, accumulatedChunks,
                         realtimeChatBuffer, requests >> ]_vars

\* C10 witness: the switch was just turned off with fragments waiting, a
\* request in flight, audio accumulated and a message buffered.
C10_Witness ==
  /\ lastOp = "chatPermissionChange" /\ ~isChatPermissionGranted
  /\ \E g \in gone : g.by = "switch"
  /\ chatQueue = << >>
  /\ Open # {} /\ isSending /\ accumulatedChunks # << >>
  /\ realtimeChatBuffer # << >>

\* C11 -- the running flag implies the main switch: in every state between
\* handlers, if the agent runs then the main switch is on (turning the switch
\* off while running stops the agent, and Start does not set the flag while
\* the switch is off).
C11_RunningImpliesSwitch == isAgentRunning => isMainSwitchOn

\* C11 witness: the main switch was just turned off after a successful Start
\* whose recorder stop is still to be delivered; the agent does not run.
C11_Witness ==
  /\ lastOp = "mainSwitchChange" /\ ~isMainSwitchOn /\ ~isAgentRunning
  /\ startCount = 1 /\ runButton.text = "Start" /\ runButton.disabled
  /\ \E o \in 1..MaxRecObj :
        recorders[o].state = "inactive" /\ recorders[o].events = << "stop" >>

\* The chat events the program accepted and still holds or has uploaded
Accepted ==
  { realtimeChatBuffer[i] : i \in DOMAIN realtimeChatBuffer } \cup
  UNION { { requests[r].chats[j] : j \in DOMAIN requests[r].chats } :
          r \in DOMAIN requests }

\* C12 -- duplicate suppression: an observed chat event is not appended to
\* the rolling buffer when an accepted event of the same author, content and
\* platform is at most 5,000 ms older (whether that event is still among the
\* last 20 buffered ones or an interval finalization has pruned it into an
\* upload in the meantime), and is appended otherwise.
C12_DuplicateSuppression ==
  [][ \A c \in Contents, ok \in BOOLEAN :
        ObserveChat("u", c, ok) =>
          LET Twin(m) == m.uname = "u" /\ m.content = c /\ m.platform = platform
              Recent(m) == now - m.timestamp <= DEDUP_TIME_WINDOW
              twins == { m \in Accepted : Twin(m) /\ Recent(m) }
          IN IF twins # {}
             THEN realtimeChatBuffer' = realtimeChatBuffer
             ELSE /\ Len(realtimeChatBuffer') = Len(realtimeChatBuffer) + 1
                  /\ Twin(realtimeChatBuffer'[Len(realtimeChatBuffer')]) ]_vars

\* The splitter has returned from a call
SplitReturned == call.fn = "splitMessage" /\ call.returned
\* The limit the specification names for the call: the non-zero override,
\* else 100 on YouTube and Twitch, else 20
ActiveLimit ==
  IF call.force # 0 THEN call.force
  ELSE IF platform \in {"YouTube", "Twitch"} THEN 100 ELSE 20

\* C13 -- splitter length bound: every fragment that splitMessage returns,
\* for every message and every platform, is at most as long as the active
\* limit (the non-zero force override, else 100 on YouTube and Twitch, else
\* 20).
C13_LengthBound ==
  SplitReturned =>
    \A i \in DOMAIN call.result : Len(call.result[i]) <= ActiveLimit

\* C13 witness: a message of one word longer than the limit of its platform,
\* with no override, came back hard-cut in several fragments.
C13_Witness ==
  /\ SplitReturned /\ call.force = 0 /\ platform = "YouTube"
  /\ Len(call.message) = 101 /\ Len(call.result) = 2
  /\ Len(call.result[1]) = 100

\* C14 -- splitter identity: for any message no longer than the active
\* limit, the shortest ones (a single character) included, splitMessage
\* returns exactly the one-element list of that message, unchanged.
C14_Identity ==
  (SplitReturned /\ Len(call.message) <= ActiveLimit)
    => call.result = << call.message >>

\* C14 witness: a message exactly as long as the limit, with a separator and
\* blanks around it, came back whole.
C14_Witness ==
  /\ SplitReturned /\ Len(call.message) = ActiveLimit
  /\ call.message = << " ", ",", "a" >>
  /\ call.result = << call.message >>

\* What a text says, whitespace aside
NotWhitespace(c) == c \notin Whitespace
Content(str) == SelectSeq(str, NotWhitespace)

\* C15 -- splitter losslessness: the fragments splitMessage returns, put
\* end to end, have the characters of the message in the message's order,
\* whitespace aside: no character other than whitespace is lost, punctuation
\* included.
C15_Lossless ==
  SplitReturned => Content(Concat(call.result)) = Content(call.message)

\* The payload {"status":"success"}
OnlyStatus == [status |-> JsValue("string", "success")]

\* C16 -- response-field defaulting: parsing a response that holds only the
\* status "success" gives empty lists for messages and notepad notes, null
\* for think, continues, youdao, whisper and imageUrl, false for
\* contextCleared and the empty string for raw; the completion handler that
\* receives this response puts no fragment in the send queue and starts no
\* drain.
C16_ResponseDefaults ==
  [][ /\ (ParseServerResponseCall /\ call.resp = OnlyStatus)
           => call'.result =
                [messages |-> << >>, think |-> JsNull, continues |-> JsNull,
                 notepadNotes |-> << >>, contextCleared |-> FALSE,
                 youdao |-> JsNull, whisper |-> JsNull, imageUrl |-> JsNull,
                 raw |-> JsValue("string", << >>)]
      /\ (lastOp' = "xhrComplete" /\ call.resp = OnlyStatus)
           => /\ chatQueue' = chatQueue /\ fragCount' = fragCount
              /\ adapterCalls' = adapterCalls /\ queueTimers' = queueTimers
              /\ isProcessingQueue' = isProcessingQueue ]_vars

\* C16 witness: the parser has returned for the status-only payload and the
\* completion handler has just received it for the first upload, with chat
\* permission on and the agent running; nothing was ever enqueued.
C16_Witness ==
  /\ call.fn = "parseServerResponse" /\ call.returned
  /\ call.resp = OnlyStatus /\ call.result.messages = << >>
  /\ lastOp = "xhrComplete" /\ requests # << >> /\ ~requests[1].open
  /\ isChatPermissionGranted /\ isAgentRunning
  /\ fragCount = 0 /\ chatQueue = << >> /\ adapterCalls = << >>

\* Nothing waits in the send queue, nothing is in the adapter's hands and no
\* drain is in progress or scheduled
QueueIdle ==
  /\ chatQueue = << >> /\ adapterCalls = << >> /\ queueTimers = << >>
  /\ ~isProcessingQueue

\* The response of this step is a successful one with a chat message, come
\* to an idle send queue with the main switch and chat permission on and the
\* agent running on YouTube
ResponseToIdleQueue ==
  /\ lastOp' = "xhrComplete" /\ respCount' = respCount + 1
  /\ QueueIdle /\ isMainSwitchOn /\ isChatPermissionGranted
  /\ isAgentRunning /\ platform = "YouTube"

\* C17 -- end to end on YouTube, as stated: with the main switch and chat
\* permission on, the agent running and the send queue idle, a successful
\* response with one chat message of 45 characters puts exactly one
\* fragment, the whole message, in the queue and hands it to the adapter's
\* send routine in the same step, and that is the only post attempt: the
\* first response's fragment is never handed to the adapter a second time.
C17_OneAttempt ==
  [][ /\ ResponseToIdleQueue
        => /\ fragCount' = fragCount + 1
           /\ adapterCalls' = << [id |-> fragCount', text |-> Msg45] >>
           /\ chatQueue' = << >> /\ queueTimers' = << >>
      /\ 1 \in InHand' \ InHand => fragCount = 0 ]_vars

\* C17 -- end to end on YouTube, amended: with the main switch and chat
\* permission on, the agent running and the send queue idle, a successful
\* response with one chat message of 45 characters puts exactly one
\* fragment, the whole message, in the queue and hands it to the adapter's
\* send routine in the same step; once the adapter has posted it the
\* fragment is neither queued nor handed over again; a fragment comes back
\* to the queue, for a further attempt, only when the adapter answered
\* "disabled" or "error" or threw, and only a fresh or a queued fragment is
\* handed over.
C17_EndToEnd ==
  [][ /\ ResponseToIdleQueue
        => /\ fragCount' = fragCount + 1
           /\ adapterCalls' = << [id |-> fragCount', text |-> Msg45] >>
           /\ chatQueue' = << >> /\ queueTimers' = << >>
      /\ \A f \in posted' : f \in InHand /\ f \notin Waiting' \cup InHand'
      /\ \A f \in Waiting' \ Waiting :
            \/ f > fragCount
            \/ /\ f \in InHand /\ lastOp' = "adapterReturn"
               /\ f \notin posted'
               /\ \E k \in DOMAIN adapterCalls,
                     status \in {"disabled", "error", "throw"} :
                       AdapterReturn(k, status)
      /\ \A f \in InHand' \ InHand : f \in Waiting \/ f > fragCount ]_vars

\* C17 witness: the only response with a message came to an idle queue, its
\* one fragment was posted, and nothing is left to send.
C17_Witness ==
  /\ lastOp = "adapterReturn" /\ posted = {1}
  /\ respCount = 1 /\ fragCount = 1 /\ platform = "YouTube"
  /\ QueueIdle /\ isAgentRunning /\ isChatPermissionGranted

\* captureScreenshot has returned from a call
ShotReturned == call.fn = "captureScreenshot" /\ call.returned
\* n is a nearest integer of x / y: at an exact half either neighbour
IsRound(n, x, y) == 2 * y * n - y <= 2 * x /\ 2 * x <= 2 * y * n + y
\* n is x / y rounded with a fixed rule for an exact half: to the upper
\* neighbour (Math.round of the exact quotient), or to the even neighbour
IsRoundHalfUp(n, x, y) == 2 * y * n - y <= 2 * x /\ 2 * x < 2 * y * n + y
IsRoundHalfEven(n, x, y) ==
  /\ IsRound(n, x, y)
  /\ (2 * x = 2 * y * n - y \/ 2 * x = 2 * y * n + y) => n % 2 = 0
IsRoundByRule(n, x, y) == IsRoundHalfUp(n, x, y) \/ IsRoundHalfEven(n, x, y)

\* The canvas of a returned call is sized as the claim says, with Rounded
\* for its round()
SizedWith(Rounded(_, _, _)) ==
  ShotReturned =>
    LET W == call.videoWidth
        H == call.videoHeight
        out == call.result
    IN IF domVideo = 0 \/ call.readyState = 0 \/ W = 0 \/ H = 0
       THEN out.screenshot = "null"
       ELSE /\ out.screenshot = "canvas"
            /\ out.width <= 1280 /\ out.height <= 720
            /\ IF W * 720 > 1280 * H
               THEN out.width = 1280 /\ Rounded(out.height, 1280 * H, W)
               ELSE out.height = 720 /\ Rounded(out.width, 720 * W, H)
            /\ (W = 1920 /\ H = 1080) => (out.width = 1280 /\ out.height = 720)
            /\ (W = 1080 /\ H = 1920) => (out.width = 405 /\ out.height = 720)

\* C18 -- screenshot sizing, as stated: a source of W x H pixels with
\* metadata gives a canvas of 1280 x round(1280*H/W) when W/H > 1280/720 and
\* of round(720*W/H) x 720 otherwise, round() being the rounding of the
\* exact quotient (an exact half to the upper or to the even neighbour),
\* never larger than 1280 x 720; 1920x1080 gives 1280x720 and 1080x1920
\* gives 405x720; a source without an element, without metadata or with
\* zero width or height gives no screenshot.
C18_ExactRound == SizedWith(IsRoundByRule)

\* C18 -- screenshot sizing, amended: a source of W x H pixels with metadata
\* gives a canvas of 1280 x n, n a nearest integer of 1280*H/W, when
\* W/H > 1280/720 and of m x 720, m a nearest integer of 720*W/H, otherwise
\* (where the exact quotient is a half, either neighbour), never larger
\* than 1280 x 720; 1920x1080 gives 1280x720 and 1080x1920 gives 405x720; a
\* source without an element, without metadata or with zero width or
\* height gives no screenshot.
C18_ScreenshotSize == SizedWith(IsRound)

\* C18 witness: the portrait source of 1080 x 1920 came back as 405 x 720.
C18_Witness ==
  /\ ShotReturned /\ domVideo # 0 /\ call.readyState = 4
  /\ call.videoWidth = 1080 /\ call.videoHeight = 1920
  /\ call.result = [screenshot |-> "canvas", width |-> 405, height |-> 720]

\* C19 -- cancellation by the running flag: a step that leaves the running
\* flag false (Stop itself and every step until the next Start) starts no
\* recorder and arms no interval timer, and a recorder stop handler (before
\* or after its screenshot) or an interval timer's stop function that runs
\* while the flag is false starts no recorder, stops none and queues no
\* recorder event.
C19_StopCancels ==
  [][ /\ ~isAgentRunning'
        => /\ Recording' \subseteq Recording
           /\ recorder1Timeout'.pending => recorder1Timeout' = recorder1Timeout
           /\ recorder2Timeout'.pending => recorder2Timeout' = recorder2Timeout
      /\ (/\ ~isAgentRunning
          /\ lastOp' \in {"onstop", "onstopResume", "recorderTimeout"})
        => \A o \in 1..MaxRecObj :
             /\ recorders'[o].state = recorders[o].state
             /\ Len(recorders'[o].events) <= Len(recorders[o].events) ]_vars

\* C19 witness: a stop handler that waited for its screenshot resumed after
\* Stop and uploaded its segment; the other recorder was never started.
C19_Witness ==
  /\ lastOp = "onstopResume" /\ ~isAgentRunning /\ startCount = 1
  /\ segCount = 1 /\ Len(requests) = 1 /\ shots = << >>
  /\ recorders[2].state = "inactive" /\ recorders[2].events = << >>
  /\ recorders[2].chunks = << >>

\* C20 -- chat capture is off while the agent is stopped: whenever the
\* running flag is false (after Stop and until the next Start) the chat
\* observer is not attached and the rolling chat buffer is empty, also when
\* Stop came while the observer's setup was retrying for a chat container
\* that did not exist yet.
C20_ObserverOffAfterStop ==
  ~isAgentRunning => (~chatObserver /\ realtimeChatBuffer = << >>)

\* C21 -- a recorder failure during Start restores the idle state: when a
\* Start whose audio initialisation succeeded (it is counted) returns with
\* no recorder recording, because the recorders could not be created or the
\* first one could not be started, the running flag is false, the button
\* shows "Start" without the running style, and neither the chat observer
\* nor the video replacement monitor is active.
C21_StartFailureRestoresIdle ==
  [][ (startCount' = startCount + 1 /\ Recording' = {})
      => /\ ~isAgentRunning'
         /\ runButton'.text = "Start" /\ ~runButton'.running
         /\ ~chatObserver' /\ ~videoReplacementObserver' ]_vars

\* C22 -- a runtime recorder error stops the agent: when the error handler
\* of a recorder has run, with the video-replacement recovery pass it calls,
\* the running flag is false.
C22_ErrorStopsAgent ==
  [][ lastOp' = "onerror" => ~isAgentRunning' ]_vars

\* Start is pressed or called with every precondition met (agent stopped,
\* main switch on, room id resolved, video element found)
StartAttempt(in) ==
  /\ ~isAgentRunning /\ isMainSwitchOn /\ roomId /\ domVideo # 0
  /\ (RunButtonClick(in) \/ StartAgentCall(in))

\* C23 -- audio initialisation failure during Start: when Start reaches the
\* audio initialisation and no source node can be created for the element,
\* the running flag stays false, no recorder is created or started, neither
\* the chat observer nor the video monitor is started, the button shows
\* "Start" without the running style, and the button is enabled exactly when
\* the main switch is on.
C23_AudioInitFailure ==
  [][ \A in \in BrowserAnswers :
        (~in.sourceOk /\ StartAttempt(in))
        => /\ ~isAgentRunning'
           /\ recorderCount' = recorderCount /\ Recording' = Recording
           /\ recorder1Timeout' = recorder1Timeout
           /\ recorder2Timeout' = recorder2Timeout
           /\ chatObserver' = chatObserver
           /\ videoReplacementObserver' = videoReplacementObserver
           /\ runButton'.text = "Start" /\ ~runButton'.running
           /\ runButton'.disabled = ~isMainSwitchOn' ]_vars

\* C23 witness: Start has just failed in the audio initialisation (the gain
\* node exists, no source node, no element tracked, nothing counted) and the
\* button is enabled for a retry.
C23_Witness ==
  /\ lastOp = "runButtonClick" /\ ~isAgentRunning /\ isMainSwitchOn
  /\ startCount = 0 /\ gainNode /\ destination # 0 /\ mediaElementSource = 0
  /\ currentVideoElement = 0 /\ domVideo # 0
  /\ runButton = [text |-> "Start", running |-> FALSE, disabled |-> FALSE]

\* C24 -- an aborted Start leaves the controls retryable: when the Start
\* button was pressed and Start was aborted because no video element could
\* be located (nothing was initialised), and a video element then appears
\* while the main switch stays on, the running flag is false and the Start
\* button is enabled, also when the initial video detection had completed
\* before the element disappeared.
C24_AbortedStartRetryable ==
  [][ (/\ lastOp = "runButtonClick" /\ ~isAgentRunning /\ startCount = 0
       /\ isMainSwitchOn /\ isMainSwitchOn'
       /\ domVideo = 0 /\ domVideo' # 0)
      => (~isAgentRunning' /\ ~runButton'.disabled) ]_vars

\* C25 -- Stop leaves the recording side clean: in every state in which the
\* running flag is false (from Stop until the next Start) both recorder
\* active flags are false, no interval timer is pending and the audio
\* accumulation is empty, also after the force-stopped recorder's stop
\* handler has run with an earlier upload still in flight; and the step that
\* stops the agent neither completes a request nor changes the sending flag.
C25_StopClearsRecording ==
  [][ /\ ~isAgentRunning'
        => /\ ~isRecorder1Active' /\ ~isRecorder2Active'
           /\ ~recorder1Timeout'.pending /\ ~recorder2Timeout'.pending
           /\ accumulatedChunks' = << >> /\ ~isAccumulating'
      /\ (isAgentRunning /\ ~isAgentRunning')
        => (isSending' = isSending /\ requests' = requests) ]_vars

\* The audio the upload client was handed, in the order in which it leaves
\* or will leave: the audio of the requests in sending order, then the
\* accumulation
AudioLine ==
  Concat([r \in DOMAIN requests |-> requests[r].audio]) \o
  Concat(accumulatedChunks)

\* C26 -- no audio dropped by backpressure: while the agent keeps running,
\* a segment handed to the upload client (by a stop handler, at once or after
\* its screenshot) joins the end of the line formed by the audio of the
\* requests sent so far and the accumulation behind them; no other step,
\* whatever the outcome of a completing request, changes that line or the
\* audio of a request already sent, so that every segment is carried once
\* and in production order; audio waits in the accumulation only while a
\* request is in flight, and a completion leaves no accumulation behind.
C26_NoAudioDropped ==
  [][ /\ (\E o \in 1..MaxRecObj : RecorderEvent(o, BIG_BLOB, "sync", TRUE)
                                     /\ lastOp' = "onstop")
           => AudioLine' = AudioLine \o
                << [seg |-> segCount', size |-> BIG_BLOB,
                    from |-> recordingStartTimestamp, to |-> now] >>
      /\ lastOp' = "onstopResume"
           => \E k \in DOMAIN shots : AudioLine' = AudioLine \o shots[k].audioBlob
      /\ (\/ lastOp' \notin {"onstop", "onstopResume"}
          \/ Len(shots') > Len(shots)
          \/ \E o \in 1..MaxRecObj, mode \in {"sync", "async"} :
                RecorderEvent(o, SMALL_BLOB, mode, TRUE))
           => AudioLine' = AudioLine
      /\ \A r \in DOMAIN requests : requests'[r].audio = requests[r].audio
      /\ accumulatedChunks' # << >> => Open' # {}
      /\ lastOp' = "xhrComplete" => accumulatedChunks' = << >> ]_vars

\* C26 witness: the first request completed after two segments had been
\* finalized behind it; they left merged, in order, in the request that its
\* completion sent, and the fourth segment followed in a request of its own.
C26_Witness ==
  /\ Len(requests) = 3 /\ ~requests[1].open
  /\ Len(requests[1].since) = 2
  /\ requests[2].audio = Concat(requests[1].since)
  /\ Len(requests[3].audio) = 1 /\ requests[3].audio[1].seg = 4
  /\ isAgentRunning

\* C27 -- audio is attributed to its interval: the start and end stamps of
\* every request bound the recording interval of every segment the request
\* carries (from the recorder's start event to its stop event), also those
\* of a request that carries audio accumulated while an earlier request was
\* in flight.
C27_AudioAttribution ==
  \A r \in DOMAIN requests :
    \A j \in DOMAIN requests[r].audio :
      /\ requests[r].start <= requests[r].audio[j].from
      /\ requests[r].audio[j].to <= requests[r].end


\* C28 -- a captured chat message is serialized into at most one upload:
\* whatever the interleaving of observations, interval finalizations and
\* request completions, a message stands at no more than one place of the
\* chat arrays of all requests, and a message that a request carries is no
\* longer in the rolling buffer.
C28_ChatAtMostOnce ==
  \A r1 \in DOMAIN requests : \A j1 \in DOMAIN requests[r1].chats :
    /\ requests[r1].chats[j1].id \in captured
    /\ ~InBuffer(requests[r1].chats[j1].id)
    /\ \A r2 \in DOMAIN requests : \A j2 \in DOMAIN requests[r2].chats :
         requests[r2].chats[j2].id = requests[r1].chats[j1].id
           => (r2 = r1 /\ j2 = j1)

\* C28 witness: a request carried a message; the request sent when it
\* completed re-used its interval for accumulated audio and carries no chat,
\* while a later message waits in the buffer.
C28_Witness ==
  /\ Len(requests) >= 2 /\ ~requests[1].open
  /\ requests[1].chats # << >> /\ requests[2].chats = << >>
  /\ requests[2].start = requests[1].start /\ requests[2].end = requests[1].end
  /\ realtimeChatBuffer # << >>

\* C29 -- no retry of a completed request: when a request completes, however
\* it ends, the sending lock is free afterwards unless the completion itself
\* sent a new request; such a request carries audio taken from the
\* accumulation only, no chat and no screenshot; the completed request's
\* data is not touched; and a completion that is not an HTTP 2xx with status
\* "success" puts nothing in the send queue and hands nothing to the adapter.
C29_NoRetry ==
  [][ \A r \in DOMAIN requests :
        (requests[r].open /\ ~requests'[r].open)
        => /\ isSending' => Len(requests') > Len(requests)
           /\ \A n \in DOMAIN requests' \ DOMAIN requests :
                /\ requests'[n].chats = << >> /\ ~requests'[n].shot
                /\ \A j \in DOMAIN requests'[n].audio :
                     /\ \E i \in DOMAIN accumulatedChunks :
                          \E h \in DOMAIN accumulatedChunks[i] :
                            accumulatedChunks[i][h] = requests'[n].audio[j]
                     /\ \A h \in DOMAIN requests[r].audio :
                          requests[r].audio[h] # requests'[n].audio[j]
           /\ requests'[r] = [requests[r] EXCEPT !.open = FALSE]
           /\ (\E kind \in Outcomes \ {"success"} : XhrComplete(r, Failure(kind)))
                => /\ chatQueue' = chatQueue /\ fragCount' = fragCount
                   /\ adapterCalls' = adapterCalls
                   /\ queueTimers' = queueTimers ]_vars

\* C29 witness: the first request ended in a transport failure (both of its
\* callbacks released the lock) with chat permission on; the segment that
\* waited behind it left in a new request, and nothing was ever enqueued.
C29_Witness ==
  /\ lastOp = "xhrComplete" /\ isChatPermissionGranted
  /\ Len(requests) = 2 /\ ~requests[1].open /\ requests[2].open
  /\ ~isSending /\ accumulatedChunks = << >>
  /\ requests[2].audio = Concat(requests[1].since) /\ requests[2].audio # << >>
  /\ fragCount = 0 /\ chatQueue = << >>

\* A drain is under way: a fragment is in the adapter's hands or the delay
\* timer scheduled after it has not fired yet
DrainUnderWay == adapterCalls # << >> \/ queueTimers # << >>

\* C30 -- single drain: at most one fragment is in the adapter's hands, at
\* most one delay timer is pending and never both, and the in-progress flag
\* is set exactly then; and while a drain is under way, a step that is
\* neither the adapter's answer nor the timer's firing (an upload response,
\* Stop, Start, the permission switch, a recorder event) hands no fragment
\* to the adapter and drains none from the queue: fragments leave the queue
\* only when the permission switch empties it.  The adapter's answer hands
\* over no new fragment when it schedules the timer.
C30_SingleDrain ==
  [][ /\ Len(adapterCalls') + Len(queueTimers') <= 1
      /\ isProcessingQueue' <=> DrainUnderWay'
      /\ (DrainUnderWay /\ lastOp' \notin {"adapterReturn", "queueTimer"})
           => /\ adapterCalls' = adapterCalls /\ queueTimers' = queueTimers
              /\ \A g \in gone' : g.by # "drain"
              /\ lastOp' # "chatPermissionChange" => Waiting \subseteq Waiting'
      /\ (lastOp' = "adapterReturn" /\ queueTimers' # << >>)
           => (adapterCalls' = << >> /\ Waiting \subseteq Waiting') ]_vars

\* C30 witness: a second upload response has just enqueued its fragment
\* while the delay timer of the running drain was pending; the fragments
\* wait and the adapter holds none.
C30_Witness ==
  /\ lastOp = "xhrComplete" /\ respCount = 2
  /\ Len(queueTimers) = 1 /\ adapterCalls = << >> /\ isProcessingQueue
  /\ Len(chatQueue) >= 2

\* C31 -- not_found: when the adapter answers "not_found" the fragment is
\* neither posted nor put back in the queue, the queue keeps its fragments in
\* their order, the in-progress flag is released, no timer is scheduled and
\* the fragment leaves the program as abandoned.
C31_NotFoundDrops ==
  [][ \A k \in DOMAIN adapterCalls :
        AdapterReturn(k, "not_found")
        => /\ chatQueue' = chatQueue
           /\ adapterCalls[k].id \notin Waiting' \cup InHand' \cup posted'
           /\ [id |-> adapterCalls[k].id, by |-> "abandon"] \in gone'
           /\ ~isProcessingQueue'
           /\ queueTimers' = << >> /\ adapterCalls' = << >> ]_vars

\* C31 witness: the adapter has just answered "not_found" for the first
\* fragment while the agent runs with permission on; the fragment behind it
\* still waits, the flag is free and no timer is pending.
C31_Witness ==
  /\ lastOp = "adapterReturn" /\ isAgentRunning /\ isChatPermissionGranted
  /\ [id |-> 1, by |-> "abandon"] \in gone
  /\ chatQueue # << >> /\ chatQueue[1].id = 2
  /\ ~isProcessingQueue /\ queueTimers = << >> /\ adapterCalls = << >>

\* The retry rules of the adapter's answers; the rule for "success" with
\* fragments waiting applies in every state (always) or only while a next
\* send is allowed, the agent running and permission on
RetryRules(always) ==
      /\ \A k \in DOMAIN adapterCalls :
           /\ (/\ AdapterReturn(k, "success") /\ chatQueue # << >>
               /\ always \/ (isAgentRunning /\ isChatPermissionGranted))
                => /\ queueTimers' = << [lo |-> 3000, hi |-> 6000] >>
                   /\ chatQueue' = chatQueue /\ isProcessingQueue'
           /\ AdapterReturn(k, "disabled")
                => /\ queueTimers' = << [lo |-> 3000, hi |-> 7000] >>
                   /\ chatQueue' = << adapterCalls[k] >> \o chatQueue
                   /\ isProcessingQueue'
           /\ (\E status \in {"error", "busy", "throw"} : AdapterReturn(k, status))
                => /\ queueTimers' = << [lo |-> 5000, hi |-> 10000] >>
                   /\ chatQueue' = << adapterCalls[k] >> \o chatQueue
                   /\ isProcessingQueue'
      /\ (queueTimers # << >> /\ lastOp' # "queueTimer")
           => (isProcessingQueue' /\ queueTimers' = queueTimers)

\* C32 -- retry scheduling by outcome, as stated: on "success" with
\* fragments waiting one timer with a delay in [3000, 6000] is scheduled and
\* the queue is left as it is; on "disabled" the fragment returns to the
\* front and the delay is in [3000, 7000]; on "error", an unrecognized
\* status or an exception the fragment returns to the front and the delay
\* is in [5000, 10000]; in the three cases the in-progress flag is set
\* afterwards, and it stays set, the timer pending, through every step that
\* is not the timer's firing.
C32_RetryAlways == [][RetryRules(TRUE)]_vars

\* C32 -- retry scheduling by outcome, amended: as stated for "disabled",
\* "error", an unrecognized status and an exception; on "success" with
\* fragments waiting the timer with a delay in [3000, 6000] is scheduled,
\* the queue left as it is and the flag kept, while the agent runs with
\* permission on; with the agent stopped or permission off no timer is
\* scheduled, the flag is released and the waiting fragments are discarded
\* in the same step, none handed to the adapter.
C32_RetryScheduling ==
  [][ /\ RetryRules(FALSE)
      /\ \A k \in DOMAIN adapterCalls :
           (/\ AdapterReturn(k, "success") /\ chatQueue # << >>
            /\ ~(isAgentRunning /\ isChatPermissionGranted))
             => /\ queueTimers' = queueTimers /\ ~isProcessingQueue'
                /\ chatQueue' = << >> /\ InHand' \subseteq InHand
                /\ \A i \in DOMAIN chatQueue :
                      [id |-> chatQueue[i].id, by |-> "drain"] \in gone' ]_vars

\* C32 witness: the adapter failed on the first fragment, which waits again
\* at the head for a retry in [5000, 10000]; an upload response that came
\* meanwhile found the flag set and only enqueued.
C32_Witness ==
  /\ lastOp = "xhrComplete" /\ respCount = 2
  /\ queueTimers = << [lo |-> 5000, hi |-> 10000] >>
  /\ isProcessingQueue /\ adapterCalls = << >>
  /\ Len(chatQueue) >= 2 /\ chatQueue[1].id = 1

\* C33 -- rolling-buffer cap: after every observer callback the rolling
\* buffer holds at most 500 messages; while it is below the cap the callback
\* only appends, and a callback that appends to a full buffer removes the
\* oldest message and keeps the others, the new one last, in their order.
C33_BufferCap ==
  [][ lastOp' = "observeChat"
      => /\ Len(realtimeChatBuffer') <= 500
         /\ Len(realtimeChatBuffer) < 500
              => SubSeq(realtimeChatBuffer', 1, Len(realtimeChatBuffer))
                   = realtimeChatBuffer
         /\ (Len(realtimeChatBuffer) = 500 /\ captured' # captured)
              => /\ Len(realtimeChatBuffer') = 500
                 /\ SubSeq(realtimeChatBuffer', 1, 499) = Tail(realtimeChatBuffer)
                 /\ realtimeChatBuffer'[500].id = msgCount' ]_vars

\* C33 witness: the 502nd message has been captured; the buffer holds the
\* messages 3 to 502 and the first two are gone.
C33_Witness ==
  /\ lastOp = "observeChat" /\ msgCount = 502
  /\ Len(realtimeChatBuffer) = 500
  /\ realtimeChatBuffer[1].id = 3 /\ realtimeChatBuffer[500].id = 502

\* C34 -- video replacement re-wires only the source: a mutation seen by the
\* replacement observer while the agent runs, after which the page's video
\* element is not the bound one (none is bound, or another one is found),
\* leaves the recordable sink, the gain node, both recorder slots, every
\* recorder, both active flags, both interval timers and the running flag as
\* they were; when a source can be created for the new element, the source
\* and the bound element become that element.  In every step a sink that
\* exists stays the same object: the sink the recorders were created on is
\* the first one the script created, and no other is ever created.
C34_ReplacementRewiresSource ==
  [][ /\ (/\ lastOp' = "domMutation"
          /\ isAgentRunning /\ videoReplacementObserver
          /\ domVideo' # 0 /\ domVideo' # currentVideoElement)
           => /\ destination' = destination /\ gainNode' = gainNode
              /\ mediaRecorder1' = mediaRecorder1
              /\ mediaRecorder2' = mediaRecorder2
              /\ recorders' = recorders /\ recorderCount' = recorderCount
              /\ isRecorder1Active' = isRecorder1Active
              /\ isRecorder2Active' = isRecorder2Active
              /\ recorder1Timeout' = recorder1Timeout
              /\ recorder2Timeout' = recorder2Timeout
              /\ isAgentRunning'
              /\ DomMutation(domVideo', TRUE)
                   => /\ mediaElementSource' = domVideo'
                      /\ currentVideoElement' = domVideo'
      /\ destination # 0 => destination' = destination
      /\ destination' <= 1 ]_vars

\* C34 witness: the agent was started on element 1 and records; the page
\* replaced the element and the source is now wired to element 2.
C34_Witness ==
  /\ lastOp = "domMutation" /\ isAgentRunning /\ startCount = 1
  /\ domVideo = 2 /\ currentVideoElement = 2 /\ mediaElementSource = 2
  /\ destination = 1 /\ gainNode /\ Recording # {}
  /\ (recorder1Timeout.pending \/ recorder2Timeout.pending)

\* C35 -- YouTube identity resolution: one search probes the page at most
\* 11 times; at most one timer of a search is pending, exactly while a
\* search is in flight; no caller is resolved twice; the step that ends a
\* search resolves every waiting caller with the same result, the
\* identifier if the page shows the link and absent otherwise, the latter
\* only at the 11th probe; and once the identifier is memoized it stays, no
\* probe is made any more and a new call is resolved with it at once.
C35_IdentityResolution ==
  [][ /\ call.probes' <= maxRetries + 1
      /\ call.timers' <= 1
      /\ call.isSearching' <=> (call.timers' = 1)
      /\ \A c \in DOMAIN call.results' : Len(call.results'[c]) <= 1
      /\ (call.isSearching /\ ~call.isSearching')
           => /\ call.waitingResolvers # << >>
              /\ \A i \in DOMAIN call.waitingResolvers :
                   call.results'[call.waitingResolvers[i]]
                     = << IF pageRoomId THEN "id" ELSE "null" >>
              /\ call.waitingResolvers' = << >>
              /\ ~pageRoomId => call.probes' = maxRetries + 1
      /\ (call.isSearching /\ call.isSearching')
           => \A c \in DOMAIN call.results :
                call.results'[c] = call.results[c]
      /\ call.cachedRoomId
           => /\ call.cachedRoomId' /\ call.probes' = call.probes
              /\ call.timers' = 0
              /\ call.callers' > call.callers
                   => call.results'[call.callers'] = << "id" >> ]_vars

\* C35 witness: the script's entry and a second caller were resolved with
\* absent, each once, after searches that ran out; the link appeared, a
\* third caller's search found it at its first probe, and a fourth call has
\* just been answered from the memo.
C35_Witness ==
  /\ lastOp = "getRoomId" /\ call.cachedRoomId /\ call.callers = 4
  /\ call.results = << << "null" >>, << "null" >>, << "id" >>, << "id" >> >>
  /\ call.probes = 1
  /\ ~call.isSearching /\ call.timers = 0 /\ call.panel

\* C36 -- YouTube live heuristic: once the script has chosen, an adapter is
\* active exactly if the page is a watch page that shows the live class on
\* the time display or the live toggle in the control bar and shows no
\* premiere/upcoming text; without an adapter no identity is asked for and
\* no panel is created.
C36_LiveHeuristic ==
  (call.fn = "youtube" /\ call.loaded)
  => /\ call.adapter <=> /\ call.watchPage /\ ~call.premiere
                         /\ (call.timeLive \/ call.liveDot)
     /\ ~call.adapter => (~call.panel /\ call.callers = 0 /\ call.timers = 0)

\* The recorder of a slot was stopped and its stop handler has not run yet
StopEventPending(o) ==
  o # 0 /\ \E e \in DOMAIN recorders[o].events : recorders[o].events[e] = "stop"

\* C37 -- recorder flags: the two active flags are never both true, at most
\* one recorder is recording, and a flag that is true belongs to a slot
\* whose recorder is recording or whose interval timer is pending; a
\* recorder that was stopped and has its stop handler still to run counts as
\* recording until the handler has run.
C37_RecorderFlags ==
  /\ ~(isRecorder1Active /\ isRecorder2Active)
  /\ Cardinality(Recording) <= 1
  /\ isRecorder1Active
       => \/ mediaRecorder1 # 0 /\ recorders[mediaRecorder1].state = "recording"
          \/ recorder1Timeout.pending
          \/ StopEventPending(mediaRecorder1)
  /\ isRecorder2Active
       => \/ mediaRecorder2 # 0 /\ recorders[mediaRecorder2].state = "recording"
          \/ recorder2Timeout.pending
          \/ StopEventPending(mediaRecorder2)

\* The recorders of a session that Stop has ended: created, and in no slot
Stale == { o \in 1..recorderCount : o # mediaRecorder1 /\ o # mediaRecorder2 }

\* C38 -- callbacks of an earlier session: a stop handler of a recorder that
\* Stop has ended, run while the agent runs again, leaves both active flags
\* as they are and arms no interval timer, and after it no recorder of an
\* ended session is recording and at most one recorder records.
C38_StaleCallbacks ==
  [][ \A o \in Stale :
        (isAgentRunning /\ RecorderEvent(o, BIG_BLOB, "sync", TRUE))
        => /\ isRecorder1Active' = isRecorder1Active
           /\ isRecorder2Active' = isRecorder2Active
           /\ recorder1Timeout' = recorder1Timeout
           /\ recorder2Timeout' = recorder2Timeout
           /\ \A q \in Stale : recorders'[q].state # "recording"
           /\ Cardinality(Recording') <= 1 ]_vars

\* Chat permission has just been revoked while fragment id was in the
\* adapter's hands
RevokedInHand(id) ==
  /\ lastOp = "chatPermissionChange" /\ ~isChatPermissionGranted
  /\ id \in InHand

\* C39 -- no post after a revoke: a fragment that was in the adapter's hands
\* when chat permission was revoked, and that the adapter did not post but
\* gave back, so that it waits in the queue again, is never posted
\* afterwards, whether or not permission is granted again before the retry
\* timer fires.  (A fragment that waited in the queue at the revoke was
\* removed by the switch's handler.)
C39_NoPostAfterRevoke ==
  \A id \in 1..2 :
    [](RevokedInHand(id) => [](id \in Waiting => [](id \notin posted)))

\* C40 -- send-queue progress: when every adapter send call returns and every
\* delay timer fires, a fragment that waits in the send queue is eventually
\* taken out of it (handed to the adapter or discarded), with no further
\* upload response needed to restart the drain.
C40_QueueProgress ==
  \A id \in 1..2 : (id \in Waiting) ~> (id \notin Waiting)

\* Fragments wait in the queue and no drain is under way
DrainStopped == chatQueue # << >> /\ ~isProcessingQueue

\* A timer callback has just handed a fragment to the adapter
TimedAttempt == lastOp = "queueTimer" /\ adapterCalls # << >>

\* C40 -- send-queue progress, as the drain works: when every adapter send
\* call returns and every delay timer fires, a set in-progress flag is
\* eventually released (by the adapter's answer or by the timer callback,
\* which releases it before it drains again); while fragments wait in the
\* send queue, the queue is eventually emptied, or the drain is stopped, or
\* a timer callback makes the next send attempt, with no upload response
\* needed; and the drain stops with fragments left in the queue only when
\* the adapter answers that the chat controls are missing.
C40_QueueProgressAmended ==
  /\ isProcessingQueue ~> (~isProcessingQueue \/ lastOp = "queueTimer")
  /\ (chatQueue # << >>) ~> (chatQueue = << >> \/ DrainStopped \/ TimedAttempt)
  /\ [][DrainStopped' /\ ~DrainStopped
          => \E k \in DOMAIN adapterCalls : AdapterReturn(k, "not_found")]_vars

\* The timer callback of a delayed drain has handed the second fragment to
\* the adapter
C40_Witness ==
  /\ lastOp = "queueTimer"
  /\ 2 \in InHand
  /\ isProcessingQueue

=============================================================================
